---- MODULE Spec2Model ----
(***************************************************************************)
(* Model of check_growth: the HistoryFile datapoint store (retention,      *)
(* persistence through a YAML history file) and the main() check run that  *)
(* drives it.                                                              *)
(*                                                                         *)
(* Time: `clock` counts units of 1/SubSecond seconds (time.time() is a     *)
(* float); timestamps stored in the series are whole seconds.              *)
(***************************************************************************)
EXTENDS Integers, Sequences, FiniteSets, TLC

VARIABLES
    clock,                  \* time.time(), in units of 1/SubSecond s
    files,                  \* the history file at every location
    data,                   \* HistoryFile._data
    location,               \* HistoryFile._location
    max_averaging_window,   \* HistoryFile._max_averaging_window
    min_averaging_window,   \* HistoryFile._min_averaging_window
    last,                   \* the call made last and what it returned/raised
    saved,                  \* what the last completed save() wrote, per location
    adds,                   \* number of datapoints added so far
    cfg,                    \* ScriptConfiguration and the command line of the run
    pc,                     \* where main() is
    frame,                  \* the local variables of main()
    log,                    \* the calls main() has made in this run, in order
    runs                    \* number of runs started so far

storeVars == <<data, location, max_averaging_window, min_averaging_window>>
mainVars == <<cfg, pc, frame, log, runs>>
vars == <<clock, files, data, location, max_averaging_window,
          min_averaging_window, last, saved, adds, cfg, pc, frame, log, runs>>

----------------------------------------------------------------------------
(* Bounds of the model *)

SubSecond == 2      \* clock units per second
MaxDay == 1         \* the clock runs over days 0..MaxDay
MaxAdds == 2        \* datapoints added by direct calls per behaviour
MaxRunDay == 1      \* the check runs are made on days 0..MaxRunDay
MaxRuns == 2        \* runs of main() per behaviour

(* Program constants *)

DaySeconds == 86400     \* 3600 * 24
NoneValue == -1         \* the None of the class attributes before init()
TextValue == -2         \* a datapoint that is text and no number, as 'foo'
NanValue == -3          \* a datapoint that is float('nan'), or text float() reads as nan

Day == DaySeconds * SubSecond

\* The instants the clock may show: the start of each day, and a moment
\* strictly between the first two seconds (1.5 s when SubSecond is 2).
Instants == { d * Day : d \in 0..MaxDay } \cup { SubSecond + (SubSecond \div 2) }

\* The instants the clock may show while the arguments of the calls are
\* tried: two that round to different seconds of the first day, and the
\* start of the next day.
InputInstants == {0, SubSecond + (SubSecond \div 2), Day}

\* The instants the clock may show during the check runs: the start of a day.
RunInstants == { d * Day : d \in 0..MaxRunDay }

Locations == {"hist.yml"}
ExistingPaths == {"/tmp", "/var"}
\* the (prefix, path, data_type) arguments the calls are made with: the three
\* series of the store and the malformed ones of test_histfile_syntax_checking
GoodKeys == {<<"memory", "None", "None">>,
             <<"disk", "/tmp", "inode">>, <<"disk", "/tmp", "space">>}
BadKeys == {<<"disk", "no-a-path", "inode">>}
Keys == GoodKeys \cup BadKeys
Usages == {10}
\* the arguments of test_histfile_syntax_checking: a prefix that is not
\* supported or None, a disk key without path, without data_type, with an
\* unknown data_type, with a path that does not exist
InvalidKeys == {<<"dummy", "None", "None">>, <<"None", "None", "None">>,
                <<"disk", "None", "inode">>, <<"disk", "/tmp", "None">>,
                <<"disk", "/tmp", "fooBar">>, <<"disk", "no-a-path", "inode">>}
InputKeys == GoodKeys \cup InvalidKeys
\* the datapoints handed to add_datapoint: numbers, text, None and nan
Datapoints == {10, 20, TextValue, NoneValue, NanValue}
\* (max_averaging_window, min_averaging_window) pairs handed to init()
WindowArgs == {<<1, 0>>}

\* sorted(ExistingPaths): the order in which yaml.dump writes mapping keys
MountOrder == <<"/tmp", "/var">>

----------------------------------------------------------------------------
(* Series and store values *)

EmptySeries == [t \in {} |-> 0]

EmptyDisk == [m \in {} |-> [inode |-> EmptySeries, space |-> EmptySeries]]

\* {'datapoints': {'memory': {}, 'disk': {}}}
EmptyStore == [kind |-> "dict", memory |-> EmptySeries, disk |-> EmptyDisk]

\* A value of _data that is not the nested mapping the class works on:
\* kind says what it is ("None", "no_datapoints", "datapoints_None",
\* "no_memory", "memory_None").
Malformed(k) == [kind |-> k, memory |-> EmptySeries, disk |-> EmptyDisk]

\* round(n / d) for d > 0: Python 3 rounds half to even
RoundRatio(n, d) ==
    LET q == n \div d
        r == n % d
    IN  IF 2 * r < d THEN q
        ELSE IF 2 * r > d THEN q + 1
        ELSE IF q % 2 = 0 THEN q ELSE q + 1

\* round(time.time())
RoundClock(c) == RoundRatio(c, SubSecond)

\* the comparison with >= in place of >
NewerThanBorder_inclusive(x, c, maxw) == x * SubSecond >= c - maxw * Day

\* x > cur_time - max_window * 3600 * 24, x in whole seconds
NewerThanBorder(x, c, maxw) == x * SubSecond > c - maxw * Day

\* the filter that also drops the oldest of the datapoints it keeps
Restrict_drop_oldest(s, c, maxw) ==
    LET kept == {x \in DOMAIN s : NewerThanBorder(x, c, maxw)}
    IN  [t \in {x \in kept : \E y \in kept : y < x} |-> s[t]]

Restrict(s, c, maxw) ==
    [t \in {x \in DOMAIN s : NewerThanBorder(x, c, maxw)} |-> s[t]]

\* what _remove_old_datapoints raises on a _data of the given kind
PurgeError(k) ==
    CASE k = "dict" -> "ok"
      [] k = "None" -> "TypeError"
      [] k = "datapoints_None" -> "TypeError"
      [] k = "no_datapoints" -> "KeyError"
      [] k = "no_memory" -> "KeyError"
      [] k = "memory_None" -> "AttributeError"

\* HistoryFile._remove_old_datapoints, on a well-shaped _data
remove_old_datapoints(d, c, maxw) ==
    [kind |-> d.kind,
     memory |-> Restrict(d.memory, c, maxw),
     disk |-> [m \in DOMAIN d.disk |->
                  [data_type \in DOMAIN d.disk[m] |->
                     Restrict(d.disk[m][data_type], c, maxw)]]]

----------------------------------------------------------------------------
(* The history file: yaml.dump(_data, default_flow_style=False) writes one  *)
(* line per mapping key, nested mappings indented below their key, keys     *)
(* sorted, an empty mapping as "key: {}".  A line is                        *)
(*   [indent, key, ts, val, form]                                           *)
(* form "map":    "key:"      a nested block follows                        *)
(* form "empty":  "key: {}"                                                 *)
(* form "scalar": "ts: val"   one datapoint                                 *)

RECURSIVE SortedSeq(_)
SortedSeq(S) ==
    IF S = {} THEN <<>>
    ELSE LET m == CHOOSE x \in S : \A y \in S : x <= y
         IN  <<m>> \o SortedSeq(S \ {m})

HeaderLine(ind, name, f) ==
    [indent |-> ind, key |-> name, ts |-> 0, val |-> 0, form |-> f]

\* an empty series written as a bare "key:" (which loads as None)
SeriesLines_bare(ind, name, s) ==
    LET order == SortedSeq(DOMAIN s)
    IN  <<HeaderLine(ind, name, "map")>>
        \o [i \in 1..Len(order) |->
              [indent |-> ind + 1, key |-> "", ts |-> order[i],
               val |-> s[order[i]], form |-> "scalar"]]

SeriesLines(ind, name, s) ==
    LET order == SortedSeq(DOMAIN s)
    IN  <<HeaderLine(ind, name, IF DOMAIN s = {} THEN "empty" ELSE "map")>>
        \o [i \in 1..Len(order) |->
              [indent |-> ind + 1, key |-> "", ts |-> order[i],
               val |-> s[order[i]], form |-> "scalar"]]

RECURSIVE DiskLines(_, _)
DiskLines(disk, i) ==
    IF i > Len(MountOrder) THEN <<>>
    ELSE (IF MountOrder[i] \in DOMAIN disk
          THEN <<HeaderLine(2, MountOrder[i], "map")>>
               \o SeriesLines(3, "inode", disk[MountOrder[i]].inode)
               \o SeriesLines(3, "space", disk[MountOrder[i]].space)
          ELSE <<>>)
         \o DiskLines(disk, i + 1)

\* yaml.dump of a well-shaped _data
yaml_dump(d) ==
    <<HeaderLine(0, "datapoints", "map")>>
    \o <<HeaderLine(1, "disk", IF DOMAIN d.disk = {} THEN "empty" ELSE "map")>>
    \o DiskLines(d.disk, 1)
    \o SeriesLines(1, "memory", d.memory)

\* The lines below the key at line i: up to the next line indented no deeper.
BlockEnd(lines, i) ==
    LET shallower == {j \in (i + 1)..Len(lines) : lines[j].indent <= lines[i].indent}
    IN  IF shallower = {} THEN Len(lines) + 1
        ELSE CHOOSE j \in shallower : \A k \in shallower : j <= k

Block(lines, i) == (i + 1)..(BlockEnd(lines, i) - 1)

\* index of the line holding `name` directly inside the block of line i (0: none)
ChildIndex(lines, i, name) ==
    LET found == {j \in Block(lines, i) :
                     /\ lines[j].indent = lines[i].indent + 1
                     /\ lines[j].form # "scalar"
                     /\ lines[j].key = name}
    IN  IF found = {} THEN 0 ELSE CHOOSE j \in found : TRUE

\* "key:" with nothing below it loads as None
IsNone(lines, i) == lines[i].form = "map" /\ Block(lines, i) = {}

SeriesAt(lines, i) ==
    LET rows == {j \in Block(lines, i) : lines[j].form = "scalar"}
    IN  [t \in {lines[j].ts : j \in rows} |->
            lines[CHOOSE j \in rows : lines[j].ts = t].val]

\* yaml.load of a file that scans: the document as the class will see it
yaml_load(lines) ==
    IF Len(lines) = 0 THEN Malformed("None")
    ELSE IF IsNone(lines, 1) THEN Malformed("datapoints_None")
    ELSE LET di == ChildIndex(lines, 1, "disk")
             mi == ChildIndex(lines, 1, "memory")
         IN  IF mi = 0 THEN Malformed("no_memory")
             ELSE IF IsNone(lines, mi) THEN Malformed("memory_None")
             ELSE [kind |-> "dict",
                   memory |-> SeriesAt(lines, mi),
                   disk |-> [m \in {lines[j].key : j \in
                                     {k \in Block(lines, di) : lines[k].indent = 2}} |->
                               LET j == ChildIndex(lines, di, m)
                               IN  [inode |-> SeriesAt(lines, ChildIndex(lines, j, "inode")),
                                    space |-> SeriesAt(lines, ChildIndex(lines, j, "space"))]]]

\* the file at a location is not what a completed save() wrote
NothingSaved == [intact |-> FALSE, torn |-> FALSE, store |-> EmptyStore]

\* File contents
MissingFile == [kind |-> "missing", lines |-> <<>>]
DeniedFile(f) == [kind |-> "denied", lines |-> f.lines]
GarbageFile == [kind |-> "garbage", lines |-> <<>>]
DocFile(ls) == [kind |-> "doc", lines |-> ls]

----------------------------------------------------------------------------
(* HistoryFile *)

\* HistoryFile._verify_resource_types: TRUE when it raises ValueError
verify_resource_types(prefix, path, data_type) ==
    \/ prefix \notin {"disk", "memory"}
    \/ /\ prefix = "disk"
       /\ \/ path = "None"
          \/ path \notin ExistingPaths
          \/ data_type \notin {"inode", "space"}

\* the series a valid key names; the disk key must be present in the store
SeriesOf(d, prefix, path, data_type) ==
    IF prefix = "memory" THEN d.memory
    ELSE IF data_type = "inode" THEN d.disk[path].inode ELSE d.disk[path].space

\* round(seconds / (3600*24)): whole days only
RoundDays_whole(seconds) == RoundRatio(seconds, DaySeconds) * 100

\* round(seconds / (3600*24), 2), in hundredths of a day
RoundDays(seconds) == RoundRatio(seconds * 100, DaySeconds)

Max(S) == CHOOSE x \in S : \A y \in S : y <= x
Min(S) == CHOOSE x \in S : \A y \in S : x <= y

\* the value get_dataspan computes for a non-empty series
Dataspan(s) == RoundDays(Max(DOMAIN s) - Min(DOMAIN s))

\* what a call left behind: its name, its arguments, the exception it raised
\* ("ok": none), the number it returned (spans in hundredths of a day; for
\* add_datapoint the timestamp it wrote), the datapoints it returned (for
\* add_datapoint the series as the call found it) and, for init(), the kind
\* of file it found
Call(op, err, args, ret, points, file) ==
    [op |-> op, err |-> err, args |-> args, ret |-> ret, points |-> points,
     file |-> file]

Did(op, err) == Call(op, err, <<>>, 0, EmptySeries, "")

\* init() with `except IOError` only: a file that does not scan is fatal
LoadResult_yaml_uncaught(f, c, maxw) ==
    IF f.kind \in {"missing", "denied"}
    THEN [data |-> EmptyStore, err |-> "ok"]
    ELSE IF f.kind = "garbage"
    THEN [data |-> Malformed("no_datapoints"), err |-> "YAMLError"]
    ELSE LET d == yaml_load(f.lines)
         IN  IF PurgeError(d.kind) = "ok"
             THEN [data |-> remove_old_datapoints(d, c, maxw), err |-> "ok"]
             ELSE [data |-> d, err |-> PurgeError(d.kind)]

\* init() catching only the IOError of a missing file: permission denied is fatal
LoadResult_denied_raises(f, c, maxw) ==
    IF f.kind = "missing"
    THEN [data |-> EmptyStore, err |-> "ok"]
    ELSE IF f.kind = "denied"
    THEN [data |-> Malformed("no_datapoints"), err |-> "IOError"]
    ELSE IF f.kind = "garbage"
    THEN [data |-> EmptyStore, err |-> "ok"]
    ELSE LET d == yaml_load(f.lines)
         IN  IF PurgeError(d.kind) = "ok"
             THEN [data |-> remove_old_datapoints(d, c, maxw), err |-> "ok"]
             ELSE [data |-> d, err |-> PurgeError(d.kind)]

\* init() without the `else: _remove_old_datapoints()` branch
LoadResult_unpurged(f, c, maxw) ==
    IF f.kind \in {"missing", "denied", "garbage"}
    THEN [data |-> EmptyStore, err |-> "ok"]
    ELSE LET d == yaml_load(f.lines)
         IN  [data |-> d, err |-> PurgeError(d.kind)]

\* what the try block of init() leaves in _data, and the exception that
\* leaves init() ("ok": none)
LoadResult(f, c, maxw) ==
    IF f.kind \in {"missing", "denied"}         \* open() raises IOError
    THEN [data |-> EmptyStore, err |-> "ok"]
    ELSE IF f.kind = "garbage"                  \* yaml.load raises YAMLError
    THEN [data |-> EmptyStore, err |-> "ok"]
    ELSE LET d == yaml_load(f.lines)
         IN  IF PurgeError(d.kind) = "ok"
             THEN [data |-> remove_old_datapoints(d, c, maxw), err |-> "ok"]
             ELSE [data |-> d, err |-> PurgeError(d.kind)]

\* init() that keeps the datapoints the class holds already
HistoryFile_init_keep(loc, maxw, minw) ==
    LET r == LoadResult(files[loc], clock, maxw)
    IN  /\ max_averaging_window' = maxw
        /\ min_averaging_window' = minw
        /\ location' = loc
        /\ data' = IF data.kind = "dict" THEN data ELSE r.data
        /\ last' = Call("init", r.err, <<loc, maxw, minw>>, 0, EmptySeries,
                        files[loc].kind)
        /\ UNCHANGED <<clock, files, saved, adds>>

\* HistoryFile.init(location, max_averaging_window, min_averaging_window)
HistoryFile_init(loc, maxw, minw) ==
    LET r == LoadResult(files[loc], clock, maxw)
    IN  /\ max_averaging_window' = maxw
        /\ min_averaging_window' = minw
        /\ location' = loc
        /\ data' = r.data
        /\ last' = Call("init", r.err, <<loc, maxw, minw>>, 0, EmptySeries,
                        files[loc].kind)
        /\ UNCHANGED <<clock, files, saved, adds>>

\* float(datapoint): the exception it raises ("ok": none)
float_error(datapoint) ==
    IF datapoint = TextValue THEN "ValueError"
    ELSE IF datapoint = NoneValue THEN "TypeError"
    ELSE "ok"

\* only the series of the data_type asked for allocated for a new path
AddPoint_single_series(d, prefix, path, data_type, ts, datapoint) ==
    IF prefix = "memory"
    THEN [d EXCEPT !.memory = [t \in DOMAIN d.memory \cup {ts} |->
                                  IF t = ts THEN datapoint ELSE d.memory[t]]]
    ELSE LET pair == IF path \in DOMAIN d.disk THEN d.disk[path]
                     ELSE [k \in {data_type} |-> EmptySeries]
             old == pair[data_type]
             new == [t \in DOMAIN old \cup {ts} |->
                        IF t = ts THEN datapoint ELSE old[t]]
             pair2 == [pair EXCEPT ![data_type] = new]
         IN  [d EXCEPT !.disk = [m \in DOMAIN d.disk \cup {path} |->
                                    IF m = path THEN pair2 ELSE d.disk[m]]]

\* the datapoint already stored at ts kept, the new one dropped
AddPoint_keep_first(d, prefix, path, data_type, ts, datapoint) ==
    IF prefix = "memory"
    THEN [d EXCEPT !.memory = [t \in DOMAIN d.memory \cup {ts} |->
                                  IF t \in DOMAIN d.memory THEN d.memory[t]
                                  ELSE datapoint]]
    ELSE LET pair == IF path \in DOMAIN d.disk THEN d.disk[path]
                     ELSE [inode |-> EmptySeries, space |-> EmptySeries]
             old == IF data_type = "inode" THEN pair.inode ELSE pair.space
             new == [t \in DOMAIN old \cup {ts} |->
                        IF t \in DOMAIN old THEN old[t] ELSE datapoint]
             pair2 == IF data_type = "inode" THEN [pair EXCEPT !.inode = new]
                      ELSE [pair EXCEPT !.space = new]
         IN  [d EXCEPT !.disk = [m \in DOMAIN d.disk \cup {path} |->
                                    IF m = path THEN pair2 ELSE d.disk[m]]]

\* _data after a successful add_datapoint at timestamp ts
AddPoint(d, prefix, path, data_type, ts, datapoint) ==
    IF prefix = "memory"
    THEN [d EXCEPT !.memory = [t \in DOMAIN d.memory \cup {ts} |->
                                  IF t = ts THEN datapoint ELSE d.memory[t]]]
    ELSE LET pair == IF path \in DOMAIN d.disk THEN d.disk[path]
                     ELSE [inode |-> EmptySeries, space |-> EmptySeries]
             old == IF data_type = "inode" THEN pair.inode ELSE pair.space
             new == [t \in DOMAIN old \cup {ts} |->
                        IF t = ts THEN datapoint ELSE old[t]]
             pair2 == IF data_type = "inode" THEN [pair EXCEPT !.inode = new]
                      ELSE [pair EXCEPT !.space = new]
         IN  [d EXCEPT !.disk = [m \in DOMAIN d.disk \cup {path} |->
                                    IF m = path THEN pair2 ELSE d.disk[m]]]

\* the pair of series allocated for the path before anything is validated
add_datapoint_alloc_first(prefix, datapoint, path, data_type) ==
    LET alloc == IF prefix = "disk" /\ path # "None" /\ path \notin DOMAIN data.disk
                 THEN [data EXCEPT !.disk =
                         [m \in DOMAIN data.disk \cup {path} |->
                            IF m = path
                            THEN [inode |-> EmptySeries, space |-> EmptySeries]
                            ELSE data.disk[m]]]
                 ELSE data
    IN  /\ data.kind = "dict"
        /\ IF verify_resource_types(prefix, path, data_type)
           THEN /\ last' = Call("add_datapoint", "ValueError",
                                <<prefix, path, data_type, datapoint>>, 0,
                                EmptySeries, "")
                /\ data' = alloc
                /\ UNCHANGED adds
           ELSE IF float_error(datapoint) # "ok"
           THEN /\ last' = Call("add_datapoint", float_error(datapoint),
                                <<prefix, path, data_type, datapoint>>, 0,
                                EmptySeries, "")
                /\ data' = alloc
                /\ UNCHANGED adds
           ELSE /\ adds' = adds + 1
                /\ data' = AddPoint(data, prefix, path, data_type,
                                    RoundClock(clock), datapoint)
                /\ last' = Call("add_datapoint", "ok",
                                <<prefix, path, data_type, datapoint>>,
                                RoundClock(clock),
                                IF prefix = "disk" /\ path \notin DOMAIN data.disk
                                THEN EmptySeries
                                ELSE SeriesOf(data, prefix, path, data_type), "")
        /\ UNCHANGED <<clock, files, location, max_averaging_window,
                       min_averaging_window, saved>>

\* add_datapoint that trims the store before it writes
add_datapoint_purging(prefix, datapoint, path, data_type) ==
    /\ data.kind = "dict"
    /\ IF verify_resource_types(prefix, path, data_type)
       THEN /\ last' = Call("add_datapoint", "ValueError",
                            <<prefix, path, data_type, datapoint>>, 0,
                            EmptySeries, "")
            /\ UNCHANGED <<data, adds>>
       ELSE IF float_error(datapoint) # "ok"
       THEN /\ last' = Call("add_datapoint", float_error(datapoint),
                            <<prefix, path, data_type, datapoint>>, 0,
                            EmptySeries, "")
            /\ UNCHANGED <<data, adds>>
       ELSE /\ adds' = adds + 1
            /\ data' = AddPoint(remove_old_datapoints(data, clock,
                                                      max_averaging_window),
                                prefix, path, data_type,
                                RoundClock(clock), datapoint)
            /\ last' = Call("add_datapoint", "ok",
                            <<prefix, path, data_type, datapoint>>,
                            RoundClock(clock),
                            IF prefix = "disk" /\ path \notin DOMAIN data.disk
                            THEN EmptySeries
                            ELSE SeriesOf(data, prefix, path, data_type), "")
    /\ UNCHANGED <<clock, files, location, max_averaging_window,
                   min_averaging_window, saved>>

\* HistoryFile.add_datapoint(prefix, datapoint, path, data_type)
add_datapoint(prefix, datapoint, path, data_type) ==
    /\ data.kind = "dict"
    /\ IF verify_resource_types(prefix, path, data_type)
       THEN /\ last' = Call("add_datapoint", "ValueError",
                            <<prefix, path, data_type, datapoint>>, 0,
                            EmptySeries, "")
            /\ UNCHANGED <<data, adds>>
       ELSE IF float_error(datapoint) # "ok"
       THEN /\ last' = Call("add_datapoint", float_error(datapoint),
                            <<prefix, path, data_type, datapoint>>, 0,
                            EmptySeries, "")
            /\ UNCHANGED <<data, adds>>
       ELSE /\ adds' = adds + 1
            /\ data' = AddPoint(data, prefix, path, data_type,
                                RoundClock(clock), datapoint)
            /\ last' = Call("add_datapoint", "ok",
                            <<prefix, path, data_type, datapoint>>,
                            RoundClock(clock),
                            IF prefix = "disk" /\ path \notin DOMAIN data.disk
                            THEN EmptySeries
                            ELSE SeriesOf(data, prefix, path, data_type), "")
    /\ UNCHANGED <<clock, files, location, max_averaging_window,
                   min_averaging_window, saved>>

\* get_dataspan measuring from the newest datapoint back to the one before
get_dataspan_result_last_gap(d, prefix, path, data_type) ==
    IF verify_resource_types(prefix, path, data_type)
    THEN [err |-> "ValueError", ret |-> 0]
    ELSE IF prefix = "disk" /\ path \notin DOMAIN d.disk
    THEN [err |-> "KeyError", ret |-> 0]
    ELSE IF DOMAIN SeriesOf(d, prefix, path, data_type) = {}
    THEN [err |-> "ValueError", ret |-> 0]
    ELSE LET ts == DOMAIN SeriesOf(d, prefix, path, data_type)
             older == ts \ {Max(ts)}
         IN  [err |-> "ok",
              ret |-> IF older = {} THEN 0 ELSE RoundDays(Max(ts) - Max(older))]

\* HistoryFile.get_dataspan: the exception it raises ("ok": none) and the
\* span it returns, in hundredths of a day
get_dataspan_result(d, prefix, path, data_type) ==
    IF verify_resource_types(prefix, path, data_type)
    THEN [err |-> "ValueError", ret |-> 0]
    ELSE IF prefix = "disk" /\ path \notin DOMAIN d.disk
    THEN [err |-> "KeyError", ret |-> 0]
    ELSE IF DOMAIN SeriesOf(d, prefix, path, data_type) = {}
    THEN [err |-> "ValueError", ret |-> 0]      \* max() of an empty sequence
    ELSE [err |-> "ok", ret |-> Dataspan(SeriesOf(d, prefix, path, data_type))]

\* verify_dataspan returning the dataspan itself
verify_dataspan_result_no_min(d, minw, prefix, path, data_type) ==
    get_dataspan_result(d, prefix, path, data_type)

\* HistoryFile.verify_dataspan: dataspan - min_averaging_window
verify_dataspan_result(d, minw, prefix, path, data_type) ==
    LET r == get_dataspan_result(d, prefix, path, data_type)
    IN  IF r.err = "ok" THEN [err |-> "ok", ret |-> r.ret - minw * 100] ELSE r

\* HistoryFile.get_dataspan(prefix, path, data_type)
get_dataspan(prefix, path, data_type) ==
    LET r == get_dataspan_result(data, prefix, path, data_type)
    IN  /\ data.kind = "dict"
        /\ last' = Call("get_dataspan", r.err, <<prefix, path, data_type>>,
                        r.ret, EmptySeries, "")
        /\ UNCHANGED <<clock, files, storeVars, saved, adds>>

\* HistoryFile.verify_dataspan(prefix, path, data_type)
verify_dataspan(prefix, path, data_type) ==
    LET r == verify_dataspan_result(data, min_averaging_window, prefix, path,
                                    data_type)
    IN  /\ data.kind = "dict"
        /\ last' = Call("verify_dataspan", r.err, <<prefix, path, data_type>>,
                        r.ret, EmptySeries, "")
        /\ UNCHANGED <<clock, files, storeVars, saved, adds>>

\* get_datapoints purging before it looks at its arguments
get_datapoints_result_purge_first(d, c, maxw, prefix, path, data_type) ==
    LET purged == remove_old_datapoints(d, c, maxw)
    IN  IF verify_resource_types(prefix, path, data_type)
        THEN [data |-> purged, err |-> "ValueError", points |-> EmptySeries]
        ELSE IF prefix = "disk" /\ path \notin DOMAIN purged.disk
        THEN [data |-> purged, err |-> "KeyError", points |-> EmptySeries]
        ELSE [data |-> purged, err |-> "ok",
              points |-> SeriesOf(purged, prefix, path, data_type)]

\* HistoryFile.get_datapoints: the store it leaves, the exception it raises
\* and the datapoints it returns
get_datapoints_result(d, c, maxw, prefix, path, data_type) ==
    IF verify_resource_types(prefix, path, data_type)
    THEN [data |-> d, err |-> "ValueError", points |-> EmptySeries]
    ELSE LET purged == remove_old_datapoints(d, c, maxw)
         IN  IF prefix = "disk" /\ path \notin DOMAIN purged.disk
             THEN [data |-> purged, err |-> "KeyError", points |-> EmptySeries]
             ELSE [data |-> purged, err |-> "ok",
                   points |-> SeriesOf(purged, prefix, path, data_type)]

\* HistoryFile.get_datapoints(prefix, path, data_type)
get_datapoints(prefix, path, data_type) ==
    LET r == get_datapoints_result(data, clock, max_averaging_window, prefix,
                                   path, data_type)
    IN  /\ data.kind = "dict"
        /\ data' = r.data
        /\ last' = Call("get_datapoints", r.err, <<prefix, path, data_type>>,
                        0, r.points, "")
        /\ UNCHANGED <<clock, files, location, max_averaging_window,
                       min_averaging_window, saved, adds>>

\* only the memory series emptied
clear_history_memory_only ==
    /\ data.kind = "dict"
    /\ data' = [data EXCEPT !.memory = EmptySeries]
    /\ last' = Did("clear_history", "ok")
    /\ UNCHANGED <<clock, files, location, max_averaging_window,
                   min_averaging_window, saved, adds>>

\* HistoryFile.clear_history()
clear_history ==
    /\ data.kind = "dict"
    /\ data' = [data EXCEPT !.memory = EmptySeries, !.disk = EmptyDisk]
    /\ last' = Did("clear_history", "ok")
    /\ UNCHANGED <<clock, files, location, max_averaging_window,
                   min_averaging_window, saved, adds>>

\* HistoryFile.save(): purge, then open(location, 'w') and write the dump
save ==
    LET purged == remove_old_datapoints(data, clock, max_averaging_window)
    IN  /\ data.kind = "dict"
        /\ data' = purged
        /\ IF files[location].kind = "denied"
           THEN /\ last' = Did("save", "IOError")
                /\ UNCHANGED <<files, saved>>
           ELSE /\ files' = [files EXCEPT ![location] = DocFile(yaml_dump(purged))]
                /\ saved' = [saved EXCEPT ![location] =
                                [intact |-> TRUE, torn |-> FALSE, store |-> purged]]
                /\ last' = Did("save", "ok")
        /\ UNCHANGED <<clock, location, max_averaging_window,
                       min_averaging_window, adds>>

\* what a process killed inside save() can leave in the file: open(.., 'w')
\* has emptied it, and a proper part of the dump may have reached it; a part
\* that ends inside a line may not scan at all
TornFiles(d) ==
    LET full == yaml_dump(d)
    IN  {DocFile(SubSeq(full, 1, n)) : n \in 0..(Len(full) - 1)} \cup {GarbageFile}

\* the class attributes of a fresh process (lines 47-50)
FreshProcess ==
    /\ data' = Malformed("no_datapoints")
    /\ location' = "None"
    /\ max_averaging_window' = NoneValue
    /\ min_averaging_window' = NoneValue

\* the process is killed inside save(); the next process starts afresh
save_killed ==
    LET purged == remove_old_datapoints(data, clock, max_averaging_window)
    IN  /\ data.kind = "dict"
        /\ files[location].kind # "denied"
        /\ \E f \in TornFiles(purged) : files' = [files EXCEPT ![location] = f]
        /\ saved' = [saved EXCEPT ![location] = [NothingSaved EXCEPT !.torn = TRUE]]
        /\ FreshProcess
        /\ last' = Did("save_killed", "ok")
        /\ UNCHANGED <<clock, adds>>

(* The environment of the history file *)

FileRemoved(l) ==
    /\ files[l].kind # "missing"
    /\ files' = [files EXCEPT ![l] = MissingFile]
    /\ saved' = [saved EXCEPT ![l] = NothingSaved]
    /\ last' = Did("env", "ok")
    /\ UNCHANGED <<clock, storeVars, adds>>

FileCorrupted(l) ==
    /\ files[l].kind = "doc"
    /\ files' = [files EXCEPT ![l] = GarbageFile]
    /\ saved' = [saved EXCEPT ![l] = NothingSaved]
    /\ last' = Did("env", "ok")
    /\ UNCHANGED <<clock, storeVars, adds>>

FileProtected(l) ==
    /\ files[l].kind = "doc"
    /\ files' = [files EXCEPT ![l] = DeniedFile(files[l])]
    /\ last' = Did("env", "ok")
    /\ UNCHANGED <<clock, storeVars, saved, adds>>

FileUnprotected(l) ==
    /\ files[l].kind = "denied"
    /\ files' = [files EXCEPT ![l] = DocFile(files[l].lines)]
    /\ last' = Did("env", "ok")
    /\ UNCHANGED <<clock, storeVars, saved, adds>>

----------------------------------------------------------------------------
(* Growth ratios.  Rates are in hundredths of a unit per day. *)

RECURSIVE GCD(_, _)
GCD(a, b) == IF b = 0 THEN a ELSE GCD(b, a % b)

RECURSIVE SetGCD(_)
SetGCD(S) ==
    IF S = {} THEN 0
    ELSE LET x == CHOOSE y \in S : TRUE IN GCD(x, SetGCD(S \ {x}))

RECURSIVE SumSeq(_)
SumSeq(q) == IF q = <<>> THEN 0 ELSE Head(q) + SumSeq(Tail(q))

\* the planned ratio taken over the room that is left
find_planned_grow_ratio_remaining(cur_usage, max_usage, timeframe) ==
    RoundRatio((max_usage - cur_usage) * 100, timeframe)

\* find_planned_grow_ratio: round(max_usage / timeframe, 2)
find_planned_grow_ratio(cur_usage, max_usage, timeframe) ==
    RoundRatio(max_usage * 100, timeframe)

\* the slope of the line through the oldest and the newest datapoint
RegressionSlope_endpoints(points) ==
    LET first == Min(DOMAIN points)
        final == Max(DOMAIN points)
    IN  RoundRatio(100 * DaySeconds * (points[final] - points[first]),
                   final - first)

\* The least-squares slope of value over timestamp, times 3600*24, rounded to
\* 2 digits.  The slope does not change when all timestamps are shifted or
\* measured in another unit, so it is computed on (x - min) / g, g the
\* greatest common divisor of the distances to the oldest timestamp.
RegressionSlope(points) ==
    LET order == SortedSeq(DOMAIN points)
        n == Len(order)
        g == SetGCD({x - order[1] : x \in DOMAIN points} \ {0})
        k == [i \in 1..n |-> (order[i] - order[1]) \div g]
        y == [i \in 1..n |-> points[order[i]]]
        num == n * SumSeq([i \in 1..n |-> k[i] * y[i]]) - SumSeq(k) * SumSeq(y)
        den == n * SumSeq([i \in 1..n |-> k[i] * k[i]]) - SumSeq(k) * SumSeq(k)
        c == GCD(100 * DaySeconds, g)
        h == GCD(IF num < 0 THEN -num ELSE num, den)
    IN  RoundRatio(((100 * DaySeconds) \div c) * (num \div h),
                   (g \div c) * (den \div h))

\* One datapoint (x, y): the system is rank deficient and lstsq returns the
\* solution of least norm, slope = x*y / (x*x + 1).  For x >= DaySeconds / 2
\* that is y/x less a part too small to matter except on an exact half.
DegenerateSlope(points) ==
    LET x == CHOOSE t \in DOMAIN points : TRUE
        n == 100 * DaySeconds * points[x]
    IN  IF x = 0 THEN 0
        ELSE IF 2 * (n % x) = x THEN n \div x ELSE RoundRatio(n, x)

\* find_current_grow_ratio(datapoints), datapoints not empty
find_current_grow_ratio(points) ==
    IF Cardinality(DOMAIN points) < 2 THEN DegenerateSlope(points)
    ELSE RegressionSlope(points)

\* planned_growth * warn_tresh and planned_growth * crit_tresh are products
\* of doubles, and 1 + reduction/100 is a double too.  These are the
\* (planned_growth, reduction) pairs of the model whose product comes out
\* below the double nearest to the product of the numbers themselves:
\* 3.0 * 1.2 is 3.5999999999999996, 3.0 * 1.4 is 4.199999999999999 and
\* 2264.6 * 1.4 is 3170.4399999999996.  For the other pairs of the model
\* whose product has two decimals (planned rates 0, 20.0 and 100.0, and
\* 2264.6 with 20) the product of the doubles is that double.
ProductBelow == {<<300, 20>>, <<300, 40>>, <<226460, 40>>}

\* current_growth > planned_growth * (1 + reduction/100): so when the rate
\* is above the product of the numbers, and when it equals that product and
\* the product of the doubles is below it
Exceeds(current_growth, planned_growth, reduction) ==
    LET q == planned_growth * (100 + reduction)
    IN  \/ current_growth > q \div 100
        \/ /\ q % 100 = 0
           /\ current_growth = q \div 100
           /\ <<planned_growth, reduction>> \in ProductBelow

\* the status do_status_processing reports
do_status_processing(current_growth, planned_growth, warn_reduction, crit_reduction) ==
    IF Exceeds(current_growth, planned_growth, warn_reduction)
    THEN IF Exceeds(current_growth, planned_growth, crit_reduction)
         THEN "crit" ELSE "warn"
    ELSE "ok"

\* A message is the sequence of its parts: the literal texts of the format
\* strings and the numbers formatted into them.
Text(t) == [isnum |-> FALSE, text |-> t, num |-> 0]
Num(n) == [isnum |-> TRUE, text |-> "", num |-> n]

\* units of do_status_processing
units(prefix, data_type) ==
    IF prefix = "disk" /\ data_type = "inode" THEN "inodes/day" ELSE "MB/day"

\* rname of do_status_processing, after capitalize(): the first letter in
\* upper case and every other letter, those of the mountpoint too, in lower
\* case (the mountpoints of the model are in lower case)
rname(prefix, mountpoint, data_type) ==
    IF prefix = "disk"
    THEN <<Text(IF data_type = "inode" THEN "Inode usage growth for mount"
                ELSE "Space usage growth for mount"), Text(mountpoint)>>
    ELSE <<Text("Memory usage growth")>>

\* the message do_status_processing passes to ScriptStatus.update with status
status_message(prefix, mountpoint, data_type, current_growth, planned_growth, status) ==
    IF status = "ok"
    THEN rname(prefix, mountpoint, data_type)
         \o <<Text("is OK ("), Num(current_growth),
              Text(units(prefix, data_type)), Text(").")>>
    ELSE rname(prefix, mountpoint, data_type)
         \o <<Text("exceeds planned growth - current:"), Num(current_growth),
              Text(units(prefix, data_type)), Text(", planned:"),
              Num(planned_growth), Text(units(prefix, data_type)), Text(".")>>

----------------------------------------------------------------------------
(* Configuration *)

Config(tf, maxw, minw, mem, disk) ==
    [timeframe |-> tf, max_averaging_window |-> maxw,
     min_averaging_window |-> minw,
     memory_mon_enabled |-> mem, disk_mon_enabled |-> disk,
     disk_mountpoints |-> <<"/tmp">>,
     memory_mon_warn_reduction |-> 20, memory_mon_crit_reduction |-> 40,
     disk_mon_warn_reduction |-> 20, disk_mon_crit_reduction |-> 40,
     history_file |-> "hist.yml"]

NoConfig == Config(0, 0, 0, FALSE, FALSE)

\* the configurations the runs are started with
Configs ==
    { Config(5, 2, 1, TRUE, TRUE),
      Config(5, 2, 0, TRUE, FALSE),
      Config(5, 1, 1, FALSE, TRUE) }

\* verify_conf: the messages it collects
verify_conf(c) ==
    LET prefixes == (IF c.memory_mon_enabled THEN {"memory_mon_"} ELSE {})
                    \cup (IF c.disk_mon_enabled THEN {"disk_mon_"} ELSE {})
        warn(p) == IF p = "memory_mon_" THEN c.memory_mon_warn_reduction
                   ELSE c.disk_mon_warn_reduction
        crit(p) == IF p = "memory_mon_" THEN c.memory_mon_crit_reduction
                   ELSE c.disk_mon_crit_reduction
    IN  (IF c.timeframe <= 0 THEN {"Timeframe should be a positive int."} ELSE {})
        \cup (IF c.max_averaging_window <= 0
              THEN {"Max averaging window should be a positive int."} ELSE {})
        \cup (IF c.timeframe <= 2 * c.max_averaging_window
              THEN {"Max averaging windown should not be grater than 0.5 * timeframe."}
              ELSE {})
        \cup (IF c.min_averaging_window >= c.max_averaging_window
              THEN {"Maximum averaging windown should be grater than minimal averaging window."}
              ELSE {})
        \cup (IF prefixes = {}
              THEN {"There should be at least one resourece check enabled."} ELSE {})
        \cup {"warn_reduction should be a positive int." : p \in {q \in prefixes : warn(q) <= 0}}
        \cup {"crit_reduction should be a positive int." : p \in {q \in prefixes : crit(q) <= 0}}
        \cup {"warn_reduction should be lower than crit_reduction." :
                 p \in {q \in prefixes : warn(q) >= crit(q)}}
        \cup (IF c.disk_mon_enabled
                 /\ \E i \in 1..Len(c.disk_mountpoints) :
                       c.disk_mountpoints[i] \notin ExistingPaths
              THEN {"disk_mountpoint does not point to a valid mountpoint."} ELSE {})

\* the disk checks made mountpoint by mountpoint, space and inode of each
Resources_by_mountpoint(c) ==
    LET n == Len(c.disk_mountpoints)
    IN  (IF c.memory_mon_enabled THEN << <<"memory", "None", "None">> >> ELSE <<>>)
        \o (IF c.disk_mon_enabled
            THEN [i \in 1..(2 * n) |->
                    <<"disk", c.disk_mountpoints[(i + 1) \div 2],
                      IF i % 2 = 1 THEN "space" ELSE "inode">>]
            ELSE <<>>)

\* the resource checks of a run in the order main() makes them: memory, then
\* for dtype in ['space', 'inode'] every mountpoint
Resources(c) ==
    LET n == Len(c.disk_mountpoints)
    IN  (IF c.memory_mon_enabled THEN << <<"memory", "None", "None">> >> ELSE <<>>)
        \o (IF c.disk_mon_enabled
            THEN [i \in 1..(2 * n) |->
                    <<"disk", c.disk_mountpoints[((i - 1) % n) + 1],
                      IF i <= n THEN "space" ELSE "inode">>]
            ELSE <<>>)

\* what the metrics sources return: (cur_usage, max_usage)
Readings == {<<10, 100>>, <<35, 100>>}

\* the arguments and local variables of main(); `res` is the position in the
\* resource checks, `msg` the message do_status_processing built last and
\* `exit` the way the process ended
NoFrame ==
    [clean_histdata |-> FALSE,
     res |-> 0, cur_usage |-> 0, max_usage |-> 0, tmp |-> 0,
     datapoints |-> EmptySeries, planned_growth |-> 0, current_growth |-> 0,
     msg |-> <<>>, exit |-> "none"]

\* an entry of the log: the call, the resource check it belongs to (0: none),
\* the status passed to ScriptStatus and a number (days, rate)
Event(call, res, status, n) == [call |-> call, res |-> res, status |-> status, n |-> n]

----------------------------------------------------------------------------
\* the class as defined, before init(), and no history file
InitClass ==
    /\ clock = 0
    /\ files \in [Locations -> {[kind |-> "missing", lines |-> <<>>]}]
    /\ data = Malformed("no_datapoints")
    /\ location = "None"
    /\ max_averaging_window = NoneValue
    /\ min_averaging_window = NoneValue
    /\ last = Did("none", "ok")
    /\ saved = [l \in Locations |-> NothingSaved]
    /\ adds = 0

\* and no main() started yet, with configuration file c
InitWith(c) ==
    /\ InitClass
    /\ cfg = c
    /\ pc = "idle"
    /\ frame = NoFrame
    /\ log = <<>>
    /\ runs = 0

\* the class as defined, no configuration loaded
Init == InitWith(NoConfig)

\* the class as defined, and the configuration file of the check runs
InitMain == \E c \in Configs : InitWith(c)

\* time passes: the clock moves on to a later one of the instants I
Tick(I) ==
    /\ \E c \in I : c > clock /\ clock' = c
    /\ last' = Did("tick", "ok")
    /\ UNCHANGED <<files, storeVars, saved, adds>>

----------------------------------------------------------------------------
(* main(): one action per statement that calls out *)

envVars == <<clock, files, data, location, max_averaging_window,
             min_averaging_window, last, saved, adds>>

Logged(call, res, status, n) == log' = Append(log, Event(call, res, status, n))

\* the arguments naming the resource under check
Resource == Resources(cfg)[frame.res]

\* the exception dropped and the run taken on to save()
Exit3_carry_on == pc' = "save" /\ frame' = frame

\* except Exception: print and sys.exit(3); the locals go with the process
Exit3 == pc' = "exited" /\ frame' = [NoFrame EXCEPT !.exit = "3"]

\* the last resource check followed at once by notify_agregated()
Proceed_skip_save(f) ==
    IF f.res < Len(Resources(cfg))
    THEN pc' = "fetch" /\ frame' = [f EXCEPT !.res = f.res + 1]
    ELSE pc' = "notify" /\ frame' = f

\* on to the next resource check, or to save() after the last one
Proceed(f) ==
    IF f.res < Len(Resources(cfg))
    THEN pc' = "fetch" /\ frame' = [f EXCEPT !.res = f.res + 1]
    ELSE pc' = "save" /\ frame' = f

\* a process starts main(config_file, clean_histdata=clean)
StartRun(clean) ==
    /\ pc \in {"idle", "exited"}
    /\ runs < MaxRuns
    /\ runs' = runs + 1
    /\ UNCHANGED cfg
    /\ pc' = "lock"
    /\ frame' = [NoFrame EXCEPT !.clean_histdata = clean]
    /\ log' = <<>>
    /\ FreshProcess
    /\ UNCHANGED <<clock, files, last, saved, adds>>

\* main() going on without ScriptLock.aqquire()
main_lock_skipped ==
    /\ pc = "lock"
    /\ pc' = "verify_conf"
    /\ UNCHANGED <<envVars, cfg, frame, log, runs>>

\* ScriptLock.init(..); ScriptLock.aqquire()
main_lock ==
    /\ pc = "lock"
    /\ Logged("aqquire", 0, "", 0)
    /\ pc' = "verify_conf"
    /\ UNCHANGED <<envVars, cfg, frame, runs>>

\* ScriptLock.aqquire() while another process holds the lock: pymisc raises
\* RecoverableException, and the handler calls
\* ScriptStatus.notify_immediate('unknown', msg), which ends the process
\* before the sys.exit(1) that follows it
main_lock_held ==
    /\ pc = "lock"
    /\ Logged("notify_immediate", 0, "unknown", 0)
    /\ pc' = "exited"
    /\ frame' = [NoFrame EXCEPT !.exit = "notify_immediate"]
    /\ UNCHANGED <<envVars, cfg, runs>>

\* verify_conf(): notify_immediate ends the process
main_verify_conf ==
    /\ pc = "verify_conf"
    /\ IF verify_conf(cfg) # {}
       THEN /\ Logged("notify_immediate", 0, "unknown", Cardinality(verify_conf(cfg)))
            /\ pc' = "exited"
            /\ frame' = [NoFrame EXCEPT !.exit = "notify_immediate"]
       ELSE /\ pc' = "init"
            /\ UNCHANGED <<log, frame>>
    /\ UNCHANGED <<envVars, cfg, runs>>

\* HistoryFile.init(location=.., max_averaging_window=.., min_averaging_window=..)
main_init ==
    /\ pc = "init"
    /\ HistoryFile_init(cfg.history_file, cfg.max_averaging_window,
                        cfg.min_averaging_window)
    /\ Logged("init", 0, "", 0)
    /\ IF last'.err # "ok" THEN Exit3
       ELSE IF frame.clean_histdata THEN pc' = "clear" /\ UNCHANGED frame
       ELSE Proceed(frame)
    /\ UNCHANGED <<cfg, runs>>

\* clear_history() that leaves the datapoints where they are
main_clear_history_noop ==
    /\ pc = "clear"
    /\ last' = Did("clear_history", "ok")
    /\ Logged("clear_history", 0, "", 0)
    /\ pc' = "clean_save"
    /\ UNCHANGED <<clock, files, storeVars, saved, adds, cfg, frame, runs>>

\* if clean_histdata: HistoryFile.clear_history()
main_clear_history ==
    /\ pc = "clear"
    /\ clear_history
    /\ Logged("clear_history", 0, "", 0)
    /\ pc' = "clean_save"
    /\ UNCHANGED <<cfg, frame, runs>>

\* if clean_histdata: HistoryFile.save()
main_clean_save ==
    /\ pc = "clean_save"
    /\ save
    /\ Logged("save", 0, "", 0)
    /\ IF last'.err # "ok" THEN Exit3
       ELSE pc' = "clean_notify" /\ UNCHANGED frame
    /\ UNCHANGED <<cfg, runs>>

\* if clean_histdata: ScriptStatus.notify_immediate('unknown', ..)
main_clean_notify ==
    /\ pc = "clean_notify"
    /\ Logged("notify_immediate", 0, "unknown", 0)
    /\ pc' = "exited"
    /\ frame' = [NoFrame EXCEPT !.exit = "notify_immediate"]
    /\ UNCHANGED <<envVars, cfg, runs>>

\* the usage fetched but never handed to add_datapoint
main_fetch_no_add ==
    /\ pc = "fetch"
    /\ Logged("fetch", frame.res, "", 0)
    /\ \/ \E r \in Readings :
            /\ frame' = [frame EXCEPT !.cur_usage = r[1], !.max_usage = r[2]]
            /\ pc' = "verify"
       \/ Exit3
    /\ UNCHANGED <<envVars, cfg, runs>>

\* cur_usage, max_usage = fetch_memory_usage() / fetch_disk_usage(mountpoint) /
\* fetch_inode_usage(mountpoint); the metrics source may fail
main_fetch ==
    /\ pc = "fetch"
    /\ Logged("fetch", frame.res, "", 0)
    /\ \/ \E r \in Readings :
            /\ frame' = [frame EXCEPT !.cur_usage = r[1], !.max_usage = r[2]]
            /\ pc' = "add"
       \/ Exit3
    /\ UNCHANGED <<envVars, cfg, runs>>

\* HistoryFile.add_datapoint(prefix, cur_usage, ..)
main_add_datapoint ==
    /\ pc = "add"
    /\ add_datapoint(Resource[1], frame.cur_usage, Resource[2], Resource[3])
    /\ Logged("add_datapoint", frame.res, "", last'.ret)
    /\ IF last'.err # "ok" THEN Exit3
       ELSE pc' = "verify" /\ UNCHANGED frame
    /\ UNCHANGED <<cfg, runs>>

\* the result of verify_dataspan ignored: always on to get_datapoints
main_verify_dataspan_ungated ==
    /\ pc = "verify"
    /\ verify_dataspan(Resource[1], Resource[2], Resource[3])
    /\ Logged("verify_dataspan", frame.res, "", last'.ret)
    /\ IF last'.err # "ok" THEN Exit3
       ELSE /\ frame' = [frame EXCEPT !.tmp = last'.ret]
            /\ pc' = "query"
    /\ UNCHANGED <<cfg, runs>>

\* tmp = HistoryFile.verify_dataspan(prefix, ..); if tmp < 0: .. else: ..
main_verify_dataspan ==
    /\ pc = "verify"
    /\ verify_dataspan(Resource[1], Resource[2], Resource[3])
    /\ Logged("verify_dataspan", frame.res, "", last'.ret)
    /\ IF last'.err # "ok" THEN Exit3
       ELSE /\ frame' = [frame EXCEPT !.tmp = last'.ret]
            /\ pc' = IF last'.ret < 0 THEN "unknown" ELSE "query"
    /\ UNCHANGED <<cfg, runs>>

\* 'unknown' reported and the series of the resource dropped from the store
main_update_unknown_forget ==
    /\ pc = "unknown"
    /\ Logged("update", frame.res, "unknown", IF frame.tmp < 0 THEN -frame.tmp ELSE frame.tmp)
    /\ Proceed(frame)
    /\ data' = IF Resource[1] = "memory"
               THEN [data EXCEPT !.memory = EmptySeries]
               ELSE [data EXCEPT !.disk[Resource[2]][Resource[3]] = EmptySeries]
    /\ last' = Did("update", "ok")
    /\ UNCHANGED <<clock, files, location, max_averaging_window,
                   min_averaging_window, saved, adds, cfg, runs>>

\* a resource short of history passed over without a status update
main_update_unknown_silent ==
    /\ pc = "unknown"
    /\ Proceed(frame)
    /\ UNCHANGED <<envVars, cfg, log, runs>>

\* ScriptStatus.update('unknown', '.. {abs(tmp)} days more is needed.')
main_update_unknown ==
    /\ pc = "unknown"
    /\ Logged("update", frame.res, "unknown", IF frame.tmp < 0 THEN -frame.tmp ELSE frame.tmp)
    /\ Proceed(frame)
    /\ UNCHANGED <<envVars, cfg, runs>>

\* datapoints = HistoryFile.get_datapoints(prefix, ..)
main_get_datapoints ==
    /\ pc = "query"
    /\ get_datapoints(Resource[1], Resource[2], Resource[3])
    /\ Logged("get_datapoints", frame.res, "", Cardinality(DOMAIN last'.points))
    /\ IF last'.err # "ok" THEN Exit3
       ELSE /\ frame' = [frame EXCEPT !.datapoints = last'.points]
            /\ pc' = "planned"
    /\ UNCHANGED <<cfg, runs>>

\* planned_growth = find_planned_grow_ratio(cur_usage, max_usage, timeframe)
main_planned_growth ==
    /\ pc = "planned"
    /\ frame' = [frame EXCEPT !.planned_growth =
                    find_planned_grow_ratio(frame.cur_usage, frame.max_usage,
                                            cfg.timeframe)]
    /\ Logged("find_planned_grow_ratio", frame.res, "", 0)
    /\ pc' = "current"
    /\ UNCHANGED <<envVars, cfg, runs>>

\* current_growth = find_current_grow_ratio(datapoints); with no datapoint at
\* all numpy raises
main_current_growth ==
    /\ pc = "current"
    /\ Logged("find_current_grow_ratio", frame.res, "", Cardinality(DOMAIN frame.datapoints))
    /\ IF DOMAIN frame.datapoints = {} THEN Exit3
       ELSE /\ frame' = [frame EXCEPT !.current_growth =
                            find_current_grow_ratio(frame.datapoints)]
            /\ pc' = "status"
    /\ UNCHANGED <<envVars, cfg, runs>>

\* do_status_processing(prefix, current_growth, planned_growth, ..)
main_status_processing ==
    LET status == IF Resource[1] = "memory"
                  THEN do_status_processing(frame.current_growth, frame.planned_growth,
                                            cfg.memory_mon_warn_reduction,
                                            cfg.memory_mon_crit_reduction)
                  ELSE do_status_processing(frame.current_growth, frame.planned_growth,
                                            cfg.disk_mon_warn_reduction,
                                            cfg.disk_mon_crit_reduction)
    IN  /\ pc = "status"
        /\ Logged("update", frame.res, status, frame.current_growth)
        /\ Proceed([frame EXCEPT !.msg =
                       status_message(Resource[1], Resource[2], Resource[3],
                                      frame.current_growth, frame.planned_growth,
                                      status)])
        /\ UNCHANGED <<envVars, cfg, runs>>

\* the exception of save() caught and the run carried on
main_save_swallow ==
    /\ pc = "save"
    /\ save
    /\ Logged("save", 0, "", 0)
    /\ pc' = "notify" /\ UNCHANGED frame
    /\ UNCHANGED <<cfg, runs>>

\* HistoryFile.save()
main_save ==
    /\ pc = "save"
    /\ save
    /\ Logged("save", 0, "", 0)
    /\ IF last'.err # "ok" THEN Exit3
       ELSE pc' = "notify" /\ UNCHANGED frame
    /\ UNCHANGED <<cfg, runs>>

\* ScriptStatus.notify_agregated()
main_notify_agregated ==
    /\ pc = "notify"
    /\ Logged("notify_agregated", 0, "", 0)
    /\ pc' = "release"
    /\ UNCHANGED <<envVars, cfg, frame, runs>>

\* ScriptLock.release()
main_release ==
    /\ pc = "release"
    /\ Logged("release", 0, "", 0)
    /\ pc' = "exited"
    /\ frame' = [NoFrame EXCEPT !.exit = "0"]
    /\ UNCHANGED <<envVars, cfg, runs>>

\* a call on the HistoryFile class made outside main() (as the unit tests do)
Direct(A) == A /\ UNCHANGED mainVars

Next ==
    \/ Direct(Tick(Instants))
    \/ \E l \in Locations, w \in WindowArgs : Direct(HistoryFile_init(l, w[1], w[2]))
    \/ \E k \in Keys, u \in Usages :
          adds < MaxAdds /\ Direct(add_datapoint(k[1], u, k[2], k[3]))
    \/ \E k \in Keys : Direct(get_dataspan(k[1], k[2], k[3]))
    \/ \E k \in Keys : Direct(verify_dataspan(k[1], k[2], k[3]))
    \/ \E k \in Keys : Direct(get_datapoints(k[1], k[2], k[3]))
    \/ Direct(clear_history)
    \/ Direct(save)
    \/ Direct(save_killed)
    \/ \E l \in Locations : Direct(FileRemoved(l))
    \/ \E l \in Locations : Direct(FileCorrupted(l))
    \/ \E l \in Locations : Direct(FileProtected(l))
    \/ \E l \in Locations : Direct(FileUnprotected(l))

Spec == Init /\ [][Next]_vars

\* The calls of the class with arguments of every kind, valid and not
NextInput ==
    \/ Direct(Tick(InputInstants))
    \/ \E l \in Locations, w \in WindowArgs : Direct(HistoryFile_init(l, w[1], w[2]))
    \/ \E k \in InputKeys, u \in Datapoints :
          adds < MaxAdds /\ Direct(add_datapoint(k[1], u, k[2], k[3]))
    \/ \E k \in InputKeys : Direct(get_dataspan(k[1], k[2], k[3]))
    \/ \E k \in InputKeys : Direct(verify_dataspan(k[1], k[2], k[3]))
    \/ \E k \in InputKeys : Direct(get_datapoints(k[1], k[2], k[3]))
    \/ Direct(clear_history)

SpecInput == Init /\ [][NextInput]_vars

\* The seconds at which test_histfile_timespan_calculation reads the clock,
\* counted from its cur_time, for min_averaging_window = 1: the start, one
\* day and one second, 1.1 days and one second; and with them half a day
\* and one day sharp.
SpanSeconds == {0, 43200, DaySeconds, DaySeconds + 1,
                DaySeconds + (DaySeconds \div 10) + 1}
SpanInstants == { t * SubSecond : t \in SpanSeconds }
\* max_averaging_window and min_averaging_window of the span calls
SpanWindowArgs == {<<2, 1>>}
SpanKeys == {<<"memory", "None", "None">>, <<"disk", "/tmp", "space">>}

\* The span calls on a store that is filled as time passes
NextSpan ==
    \/ Direct(Tick(SpanInstants))
    \/ \E l \in Locations, w \in SpanWindowArgs :
          Direct(HistoryFile_init(l, w[1], w[2]))
    \/ \E k \in SpanKeys, u \in Usages :
          adds <= MaxAdds /\ Direct(add_datapoint(k[1], u, k[2], k[3]))
    \/ \E k \in SpanKeys : Direct(get_dataspan(k[1], k[2], k[3]))
    \/ \E k \in SpanKeys : Direct(verify_dataspan(k[1], k[2], k[3]))

SpecSpan == Init /\ [][NextSpan]_vars

\* init() called again and again in one process, with windows that change,
\* between calls that add datapoints and save them
ReinitWindowArgs == {<<1, 0>>, <<2, 1>>}

NextReinit ==
    \/ Direct(Tick(InputInstants))
    \/ \E l \in Locations, w \in ReinitWindowArgs :
          Direct(HistoryFile_init(l, w[1], w[2]))
    \/ \E k \in SpanKeys, u \in Usages :
          adds < MaxAdds /\ Direct(add_datapoint(k[1], u, k[2], k[3]))
    \/ Direct(save)

SpecReinit == Init /\ [][NextReinit]_vars

\* The arguments the growth functions are tried with.
\* find_planned_grow_ratio: the (cur_usage, max_usage) of
\* test_growth_ratio_calculation and smaller ones, with timeframes of a year
\* and of five days.
GrowthConfigs == {Config(365, 14, 7, TRUE, FALSE), Config(5, 2, 1, TRUE, FALSE)}
GrowthCurrents == {252, 10}
GrowthTotals == {11323, 100, 15}
\* find_current_grow_ratio: datapoints on a line, by the day and by the
\* second; datapoints off a line; two datapoints; one; none
GrowthSeries ==
    { (0 :> 10) @@ (DaySeconds :> 20) @@ (2 * DaySeconds :> 30),
      (1 :> 5) @@ (20 :> 100) @@ (30 :> 150),
      (0 :> 10) @@ (DaySeconds :> 35) @@ (3 * DaySeconds :> 10),
      (0 :> 10) @@ (DaySeconds :> 10) @@ (2 * DaySeconds :> 35),
      (0 :> 10) @@ (DaySeconds :> 35),
      (DaySeconds :> 10),
      EmptySeries }
\* do_status_processing: current and planned rates in hundredths, those of
\* test_script_logic (60, 130, 160 against 100), rates that are exactly a
\* threshold (120 and 140 against 100, 3.6 and 4.2 against 3.0) and none
GrowthRates == {0, 360, 420, 6000, 12000, 13000, 14000, 16000}
PlannedRates == {0, 300, 10000}

\* main() at the call of a growth function with arguments of every kind
InitGrowth ==
    /\ InitClass
    /\ cfg \in GrowthConfigs
    /\ log = <<>>
    /\ runs = 1
    /\ \/ /\ pc = "planned"
          /\ \E cur \in GrowthCurrents, total \in GrowthTotals, s \in GrowthSeries :
                frame = [NoFrame EXCEPT !.res = 1, !.cur_usage = cur,
                                        !.max_usage = total, !.datapoints = s]
       \/ /\ pc = "status"
          /\ \E current \in GrowthRates, planned \in PlannedRates :
                frame = [NoFrame EXCEPT !.res = 1, !.current_growth = current,
                                        !.planned_growth = planned]

NextGrowth ==
    \/ main_planned_growth
    \/ main_current_growth
    \/ main_status_processing

SpecGrowth == InitGrowth /\ [][NextGrowth]_vars


NextMain ==
    \/ \E clean \in BOOLEAN : StartRun(clean)
    \/ main_lock
    \/ main_verify_conf
    \/ main_init
    \/ main_clear_history
    \/ main_clean_save
    \/ main_clean_notify
    \/ main_fetch
    \/ main_add_datapoint
    \/ main_verify_dataspan
    \/ main_update_unknown
    \/ main_get_datapoints
    \/ main_planned_growth
    \/ main_current_growth
    \/ main_status_processing
    \/ main_save
    \/ main_notify_agregated
    \/ main_release
    \/ Direct(Tick(RunInstants))

SpecMain == InitMain /\ [][NextMain]_vars

\* The check runs while the history file is taken away, damaged or write
\* protected between and during the runs, and while another process may hold
\* the lock
FailConfigs == {Config(5, 2, 1, TRUE, FALSE)}

InitFail == \E c \in FailConfigs : InitWith(c)

NextFail ==
    \/ NextMain
    \/ main_lock_held
    \/ \E l \in Locations : Direct(FileRemoved(l))
    \/ \E l \in Locations : Direct(FileCorrupted(l))
    \/ \E l \in Locations : Direct(FileProtected(l))
    \/ \E l \in Locations : Direct(FileUnprotected(l))

SpecFail == InitFail /\ [][NextFail]_vars

\* The check runs over two mountpoints, configured in an order that is not
\* the sorted one, with a window of one day so that a run works on the
\* datapoints of its own day; and over memory and one mountpoint
OrderConfigs ==
    { [Config(5, 1, 0, FALSE, TRUE) EXCEPT !.disk_mountpoints = <<"/var", "/tmp">>],
      Config(5, 2, 1, TRUE, TRUE) }

InitOrder == \E c \in OrderConfigs : InitWith(c)

SpecOrder == InitOrder /\ [][NextMain]_vars

\* The configuration files verify_conf is tried with: one as it should be,
\* and ones with a negative min_averaging_window, a timeframe of 0, a
\* max_averaging_window of 0, a min_averaging_window equal to
\* max_averaging_window, everything 0, and a max_averaging_window above
\* half the timeframe.
ConfConfigs ==
    { Config(5, 2, 1, TRUE, FALSE),
      Config(5, 2, -1, TRUE, FALSE),
      Config(0, 2, 1, TRUE, FALSE),
      Config(5, 0, -1, TRUE, FALSE),
      Config(5, 2, 2, TRUE, FALSE),
      Config(0, 0, 0, TRUE, FALSE),
      Config(5, 3, 1, TRUE, FALSE) }

InitConf == \E c \in ConfConfigs : InitWith(c)

\* The check runs under each of these configuration files
SpecConf == InitConf /\ [][NextMain]_vars
----------------------------------------------------------------------------
(* Properties *)

\* every series of a well-shaped store
AllSeries(d) ==
    {d.memory} \cup {d.disk[m].inode : m \in DOMAIN d.disk}
               \cup {d.disk[m].space : m \in DOMAIN d.disk}

\* the timestamps held anywhere in the store
Timestamps(d) == UNION {DOMAIN s : s \in AllSeries(d)}

\* timestamp t is not newer than `now - max_window*86400` at the present clock
Expired(t) == t * SubSecond <= clock - max_averaging_window * Day

\* the call made last ran _remove_old_datapoints to its end
JustPurged ==
    \/ last.op = "init" /\ last.file = "doc" /\ last.err = "ok"
    \/ last.op = "get_datapoints" /\ last.err # "ValueError"
    \/ last.op = "save"

\* C1: right after a purge (by init on a successful load, by get_datapoints
\* and by save) every datapoint retained in any series is strictly newer than
\* now - max_window*86400; a datapoint exactly on the border is gone.
C1_RetentionAfterPurge ==
    JustPurged => \A t \in Timestamps(data) : ~Expired(t)

\* C1 witness: a load purged a file holding a datapoint exactly on the border
\* and kept a newer one.
C1_Witness ==
    /\ last.op = "init" /\ last.file = "doc" /\ last.err = "ok"
    /\ saved[location].intact
    /\ \E t \in Timestamps(saved[location].store) :
          t * SubSecond = clock - max_averaging_window * Day
    /\ Timestamps(data) # {}

\* C2: whenever a read (get_dataspan, verify_dataspan, get_datapoints) or a
\* write (add_datapoint, save) has operated on the store, the store it worked
\* on held no datapoint with timestamp <= now - max_window*86400.
C2_NoExpiredAtAccess ==
    (/\ last.op \in {"get_dataspan", "verify_dataspan", "get_datapoints",
                     "add_datapoint", "save"}
     /\ last.err = "ok")
    => \A t \in Timestamps(data) : ~Expired(t)

\* C3: in every run of main(), whenever find_current_grow_ratio is called for
\* a resource, the datapoints handed to it (those get_datapoints returned
\* after verify_dataspan returned >= 0) hold at least two timestamps.
C3_AtLeastTwoTimestamps ==
    \A i \in DOMAIN log :
        log[i].call = "find_current_grow_ratio" => log[i].n >= 2

\* C4: init() right after a successful save(), from the same location with
\* the same windows and the clock unchanged, leaves in the store exactly the
\* series (timestamps and values) the store held when save() returned.
C4_SaveInitRoundTrip ==
    [][ (/\ last.op = "save" /\ last.err = "ok"
         /\ last'.op = "init"
         /\ last'.args = <<location, max_averaging_window, min_averaging_window>>
         /\ clock' = clock)
        => (last'.err = "ok" /\ data' = data) ]_vars

\* C4 witness: init() has read back what save() wrote, a store with a memory
\* datapoint and a disk mountpoint, and holds the same store again.
C4_Witness ==
    /\ last.op = "init" /\ last.file = "doc" /\ last.err = "ok"
    /\ saved[location].intact
    /\ data = saved[location].store
    /\ data.memory # EmptySeries
    /\ DOMAIN data.disk # {}

\* C5: when a process was killed inside save(), the next init() of that
\* location raises nothing and leaves the empty store, whatever part of the
\* document reached the file.
C5_TornFileLoadsEmpty ==
    (last.op = "init" /\ saved[location].torn)
    => (last.err = "ok" /\ data = EmptyStore)

\* C6: init() of a missing file, or of a file that is not YAML, raises nothing
\* and leaves an empty memory series, no disk mountpoint, and location and
\* both windows as given in the call.
C6_MissingOrInvalidFallsBack ==
    (last.op = "init" /\ last.file \in {"missing", "garbage"})
    => /\ last.err = "ok"
       /\ data.kind = "dict"
       /\ data.memory = EmptySeries
       /\ DOMAIN data.disk = {}
       /\ <<location, max_averaging_window, min_averaging_window>> = last.args

\* C6 witness: init() has met a file that does not scan as YAML.
C6_Witness ==
    /\ last.op = "init" /\ last.file = "garbage"
    /\ last.err = "ok"
    /\ data = EmptyStore
    /\ location \in Locations

\* C7, as stated: init() of an existing history file that may not be read
\* (permission denied) raises, and never falls back to the empty store.
C7_DeniedIsFatal ==
    (last.op = "init" /\ last.file = "denied") => last.err # "ok"

\* C7, amended: init() of an existing history file that may not be read raises
\* nothing and leaves the empty store, as for a missing file.
C7_DeniedFallsBack ==
    (last.op = "init" /\ last.file = "denied")
    => (last.err = "ok" /\ data = EmptyStore)

\* C7 witness: init() was denied a history file that holds datapoints, and
\* the store is empty.
C7_Witness ==
    /\ last.op = "init" /\ last.file = "denied"
    /\ saved[location].intact
    /\ Timestamps(saved[location].store) # {}
    /\ Timestamps(data) = {}

\* the datapoints of series s with timestamp > now - max_window*86400
Unexpired(s) ==
    [t \in {x \in DOMAIN s :
              x * SubSecond > clock - max_averaging_window * Day} |-> s[t]]

\* C8: after init() has loaded the file a completed save() wrote, every series
\* holds exactly the saved datapoints with timestamp > now - max_window*86400,
\* now being the time of init(); the expired ones are gone, the others all
\* present with their values.
C8_LoadKeepsExactlyUnexpired ==
    (/\ last.op = "init" /\ last.file = "doc"
     /\ saved[location].intact)
    => /\ last.err = "ok"
       /\ data.kind = "dict"
       /\ data.memory = Unexpired(saved[location].store.memory)
       /\ DOMAIN data.disk = DOMAIN saved[location].store.disk
       /\ \A m \in DOMAIN data.disk :
             /\ data.disk[m].inode = Unexpired(saved[location].store.disk[m].inode)
             /\ data.disk[m].space = Unexpired(saved[location].store.disk[m].space)

\* C8 witness: the saved memory series held a datapoint, max_window days went
\* by, and after init() the series is empty.
C8_Witness ==
    /\ last.op = "init" /\ last.file = "doc" /\ last.err = "ok"
    /\ saved[location].intact
    /\ saved[location].store.memory # EmptySeries
    /\ data.memory = EmptySeries
    /\ clock >= max_averaging_window * Day

\* the calls main() has made for resource r in this run, in order
EventsOf(r) == SelectSeq(log, LAMBDA e : e.res = r)
CallsOf(r) == [i \in 1..Len(EventsOf(r)) |-> EventsOf(r)[i].call]

IsPrefix(s, t) == Len(s) <= Len(t) /\ \A i \in 1..Len(s) : s[i] = t[i]

\* a resource check with enough history, and one without
FullCheck == <<"fetch", "add_datapoint", "verify_dataspan", "get_datapoints",
               "find_planned_grow_ratio", "find_current_grow_ratio", "update">>
ShortCheck == <<"fetch", "add_datapoint", "verify_dataspan", "update">>

ResourceIndexes == 1..Len(Resources(cfg))

\* C9: within one run the calls made for each enabled resource are, in this
\* order, fetch, add_datapoint, verify_dataspan and then, only when the result
\* was not negative, get_datapoints, find_planned_grow_ratio,
\* find_current_grow_ratio and the status update; the resources are worked
\* through one after another.
C9_ResourceCheckOrder ==
    /\ \A r \in ResourceIndexes :
          LET ev == EventsOf(r)
              calls == [i \in 1..Len(ev) |-> ev[i].call]
          IN  /\ IsPrefix(calls, FullCheck) \/ IsPrefix(calls, ShortCheck)
              /\ Len(ev) >= 4 /\ calls[4] = "get_datapoints" => ev[3].n >= 0
    /\ \A i \in DOMAIN log :
          /\ log[i].res \in {0} \cup ResourceIndexes
          /\ (i < Len(log) /\ log[i].res > 0)
                => \/ log[i + 1].res \in {log[i].res, log[i].res + 1}
                   \/ log[i + 1].call = "save"
          /\ (i < Len(log) /\ log[i].call \in {"save", "notify_agregated"})
                => log[i + 1].res = 0

\* C9 witness: a resource has gone through the whole check, from fetch to the
\* status update, after another resource of the same run.
C9_Witness ==
    \E r \in ResourceIndexes :
        /\ CallsOf(r) = FullCheck
        /\ EventsOf(r)[7].status # "unknown"
        /\ r > 1

\* C10: when verify_dataspan for a resource is negative, main() makes for that
\* resource one status update, 'unknown' with the number of days still
\* needed, and none of get_datapoints, find_planned_grow_ratio,
\* find_current_grow_ratio; it then goes on to the next resource, or to
\* save() after the last one.
C10_NegativeSpanIsUnknown ==
    \A i \in DOMAIN log :
        (log[i].call = "verify_dataspan" /\ log[i].n < 0)
        => LET r == log[i].res
           IN  /\ \A j \in DOMAIN log :
                     (j > i /\ log[j].res = r) => j = i + 1
               /\ IF i = Len(log) THEN pc = "unknown"
                  ELSE /\ log[i + 1] = Event("update", r, "unknown", -log[i].n)
                       /\ IF i + 1 = Len(log)
                          THEN IF r < Len(Resources(cfg))
                               THEN pc = "fetch" /\ frame.res = r + 1
                               ELSE pc = "save"
                          ELSE IF r < Len(Resources(cfg))
                               THEN log[i + 2] = Event("fetch", r + 1, "", 0)
                               ELSE log[i + 2].call = "save"

\* C10 witness: a resource was reported 'unknown' for lack of history and the
\* run went on to fetch the usage of the next resource.
C10_Witness ==
    \E i \in DOMAIN log :
        /\ log[i].call = "verify_dataspan" /\ log[i].n < 0
        /\ i + 2 <= Len(log)
        /\ log[i + 1].call = "update" /\ log[i + 1].status = "unknown"
        /\ log[i + 2].call = "fetch" /\ log[i + 2].res = log[i].res + 1

\* the positions in the log of this run at which `call` was made
PositionsOf(call) == {i \in DOMAIN log : log[i].call = call}

\* C11: a run of main() that ends normally has called save() exactly once:
\* a check run after the status update of the last resource and right before
\* notify_agregated(), a clean_histdata run after clear_history(); no run
\* calls save() twice.
C11_SaveExactlyOnce ==
    /\ Cardinality(PositionsOf("save")) <= 1
    /\ (pc = "exited" /\ frame.exit = "0")
         => /\ Cardinality(PositionsOf("save")) = 1
            /\ \A i \in PositionsOf("save") :
                  /\ \A j \in DOMAIN log : log[j].res > 0 => j < i
                  /\ i > 1 /\ i < Len(log)
                  /\ log[i - 1].call = "update"
                  /\ log[i - 1].res = Len(Resources(cfg))
                  /\ log[i + 1].call = "notify_agregated"
    /\ (pc = "exited" /\ frame.exit = "notify_immediate"
         /\ PositionsOf("clear_history") # {})
         => /\ Cardinality(PositionsOf("save")) = 1
            /\ \A i \in PositionsOf("save") : log[i - 1].call = "clear_history"

\* C11 witness: a check run that went through the growth estimation of every
\* resource has ended with exit status 0.
C11_Witness ==
    /\ pc = "exited" /\ frame.exit = "0"
    /\ PositionsOf("save") # {}
    /\ \A r \in ResourceIndexes : CallsOf(r) = FullCheck

\* the series of store d that key k = <<prefix, path, data_type>> names, empty
\* when the store has no such mountpoint
SeriesIn(d, k) ==
    IF k[1] = "memory" THEN d.memory
    ELSE IF k[2] \in DOMAIN d.disk THEN d.disk[k[2]][k[3]]
    ELSE EmptySeries

\* timestamp t is newer than now - max_window*86400 of the configuration
Fresh(t) == t * SubSecond > clock - cfg.max_averaging_window * Day

\* the timestamps this run added for a resource whose verify_dataspan was
\* negative, with the key of the resource
AddedWhileUnknown ==
    {<<Resources(cfg)[log[i].res], log[i - 1].n>> :
        i \in {j \in DOMAIN log : log[j].call = "verify_dataspan" /\ log[j].n < 0}}

\* the store last persisted at the configured location
Persisted == saved[cfg.history_file].store

\* every datapoint AddedWhileUnknown that has not aged out is in Persisted
UnknownSamplesPersisted ==
    \A a \in AddedWhileUnknown :
        Fresh(a[2]) => a[2] \in DOMAIN SeriesIn(Persisted, a[1])

\* get_datapoints of a run returns every persisted datapoint of the series
\* that has not aged out
QueryReturnsPersisted ==
    (/\ pc = "planned"
     /\ last.op = "get_datapoints" /\ last.err = "ok"
     /\ saved[cfg.history_file].intact)
    => \A t \in DOMAIN SeriesIn(Persisted, Resource) :
          Fresh(t) => t \in DOMAIN last.points

\* a save() step keeps in the file every datapoint the file held that has not
\* aged out
SaveKeepsPersisted ==
    (last'.op = "save" /\ last'.err = "ok" /\ saved[cfg.history_file].intact)
    => \A k \in GoodKeys :
          \A t \in DOMAIN SeriesIn(Persisted, k) :
              Fresh(t) => t \in DOMAIN SeriesIn(saved'[cfg.history_file].store, k)

HoldsLock ==
    /\ pc \notin {"idle", "lock", "exited"}
    /\ log # <<>> /\ log[1].call = "aqquire"
    /\ PositionsOf("release") = {}

LastKey == <<last.args[1], last.args[2], last.args[3]>>

\* C14: add_datapoint raises ValueError, and no other exception, when the
\* prefix is missing or not memory/disk, when for disk the path is missing or
\* does not exist or the data_type is missing or not space/inode, and when
\* the datapoint is not a number.
C14_InvalidAddRaisesValueError ==
    (/\ last.op = "add_datapoint"
     /\ \/ LastKey \in InvalidKeys
        \/ last.args[4] \in {TextValue, NoneValue})
    => last.err = "ValueError"

\* C15: an add_datapoint that raises leaves the store as it was: no datapoint
\* is inserted and no inode/space pair is allocated for the mountpoint.
C15_FailedAddChangesNothing ==
    [][ (last'.op = "add_datapoint" /\ last'.err # "ok")
        => (data' = data /\ adds' = adds) ]_vars

\* C15 witness: an add_datapoint for a mountpoint the store does not know,
\* with a valid key and a datapoint that is no number, has raised and the
\* store still has no entry for the mountpoint.
C15_Witness ==
    /\ last.op = "add_datapoint" /\ last.err # "ok"
    /\ LastKey \in GoodKeys /\ last.args[1] = "disk"
    /\ last.args[4] = TextValue
    /\ data.kind = "dict"
    /\ last.args[2] \notin DOMAIN data.disk
    /\ data.memory # EmptySeries

\* C16: add_datapoint rejects a datapoint that is nan (or infinite) with
\* ValueError, and no series ever holds such a datapoint.
C16_NanRejected ==
    /\ (last.op = "add_datapoint" /\ last.args[4] = NanValue)
         => last.err = "ValueError"
    /\ \A sr \in AllSeries(data) : \A t \in DOMAIN sr : sr[t] # NanValue

\* C17: get_dataspan, verify_dataspan and get_datapoints raise ValueError for
\* the keys add_datapoint rejects, and the call leaves the store as it was
\* (get_datapoints purges nothing when it rejects its key).
C17_InvalidReadChangesNothing ==
    [][ (/\ last'.op \in {"get_dataspan", "verify_dataspan", "get_datapoints"}
         /\ <<last'.args[1], last'.args[2], last'.args[3]>> \in InvalidKeys)
        => (last'.err = "ValueError" /\ data' = data) ]_vars

\* C17 witness: get_datapoints has rejected its key while the store held a
\* datapoint that a purge would have removed.
C17_Witness ==
    /\ last.op = "get_datapoints" /\ last.err = "ValueError"
    /\ LastKey \in InvalidKeys
    /\ \E t \in Timestamps(data) : Expired(t)

\* C18: get_dataspan and verify_dataspan on a valid key whose series holds no
\* datapoint (or whose mountpoint was never added) fail with a condition of
\* their own, which is not the ValueError of an invalid key.
C18_EmptySeriesDistinguishable ==
    (/\ last.op \in {"get_dataspan", "verify_dataspan"}
     /\ LastKey \in GoodKeys
     /\ DOMAIN SeriesIn(data, LastKey) = {})
    => last.err \notin {"ok", "ValueError"}

\* C20: a successful add_datapoint puts the datapoint into its series at the
\* clock rounded to whole seconds; a datapoint already there is replaced by
\* the new one and the series does not grow; every other datapoint and every
\* other series stay as they were.
C20_AddInsertsOrOverwrites ==
    [][ (last'.op = "add_datapoint" /\ last'.err = "ok")
        => LET k == <<last'.args[1], last'.args[2], last'.args[3]>>
               ts == last'.ret
               old == SeriesIn(data, k)
               new == SeriesIn(data', k)
           IN  /\ 2 * ts * SubSecond - 2 * clock \in (-SubSecond)..SubSecond
               /\ DOMAIN new = DOMAIN old \cup {ts}
               /\ new[ts] = last'.args[4]
               /\ \A t \in DOMAIN old \ {ts} : new[t] = old[t]
               /\ ts \in DOMAIN old
                    => Cardinality(DOMAIN new) = Cardinality(DOMAIN old)
               /\ \A k2 \in GoodKeys \ {k} : SeriesIn(data', k2) = SeriesIn(data, k2)
      ]_vars

\* C20 witness: an add_datapoint found another value at its timestamp and
\* has replaced it, the series being as large as before.
C20_Witness ==
    /\ last.op = "add_datapoint" /\ last.err = "ok"
    /\ last.ret \in DOMAIN last.points
    /\ last.points[last.ret] # last.args[4]
    /\ SeriesIn(data, LastKey)[last.ret] = last.args[4]
    /\ DOMAIN SeriesIn(data, LastKey) = DOMAIN last.points

\* C19: every mountpoint the store has under disk has both an inode and a
\* space series, empty or not: the first add_datapoint for a mountpoint
\* allocates the two, and a purge empties series without removing them.
C19_DiskSeriesComeInPairs ==
    data.kind = "dict"
    => \A m \in DOMAIN data.disk : DOMAIN data.disk[m] = {"inode", "space"}

\* C19 witness: after a purge by get_datapoints a mountpoint still has its
\* two series, one of them empty, the other holding a datapoint.
C19_Witness ==
    /\ last.op = "get_datapoints" /\ last.err = "ok"
    /\ \E m \in DOMAIN data.disk :
          /\ DOMAIN data.disk[m] = {"inode", "space"}
          /\ \E a, b \in DOMAIN data.disk[m] :
                data.disk[m][a] = EmptySeries /\ data.disk[m][b] # EmptySeries
    /\ \E l \in Locations : saved[l].intact /\ Timestamps(saved[l].store) \ Timestamps(data) # {}

\* C21: clear_history leaves the memory series empty (get_datapoints for
\* memory then returns nothing) and no datapoint in any disk series, and
\* keeps location and both windows; no call on the store other than init()
\* changes location, max_averaging_window or min_averaging_window.
C21_ClearKeepsConfiguration ==
    [][ /\ last'.op = "clear_history"
           => /\ data'.memory = EmptySeries
              /\ Timestamps(data') = {}
              /\ get_datapoints_result(data', clock', max_averaging_window',
                                       "memory", "None", "None").points = EmptySeries
        /\ last'.op \in {"clear_history", "add_datapoint", "get_dataspan",
                          "verify_dataspan", "get_datapoints", "save"}
           => /\ location' = location
              /\ max_averaging_window' = max_averaging_window
              /\ min_averaging_window' = min_averaging_window
      ]_vars

\* C21 witness: clear_history has emptied a store that had been given
\* datapoints and saved, and location and windows are those of init().
C21_Witness ==
    /\ last.op = "clear_history"
    /\ adds > 0
    /\ saved[location].intact /\ Timestamps(saved[location].store) # {}
    /\ Timestamps(data) = {}
    /\ <<max_averaging_window, min_averaging_window>> \in WindowArgs

\* C22: purging a store that has just been purged, with no add_datapoint and
\* no time between the two, changes nothing: the second purge returns the
\* store the first one left.
C22_PurgeIdempotent ==
    (data.kind = "dict" /\ max_averaging_window # NoneValue)
    => LET once == remove_old_datapoints(data, clock, max_averaging_window)
       IN  remove_old_datapoints(once, clock, max_averaging_window) = once

\* C22 witness: a store on which a purge has work to do, holding an expired
\* datapoint and one that stays.
C22_Witness ==
    /\ data.kind = "dict" /\ max_averaging_window # NoneValue
    /\ \E t \in Timestamps(data) : Expired(t)
    /\ \E t \in Timestamps(data) : ~Expired(t)

\* the series a call was made on, and the seconds between its oldest and
\* its newest datapoint
LastSeries(d) == SeriesOf(d, last.args[1], last.args[2], last.args[3])
RawSpan(s) == Max(DOMAIN s) - Min(DOMAIN s)
Abs(n) == IF n < 0 THEN -n ELSE n

\* C23: when add_datapoint writes, into a series that holds datapoints, a
\* timestamp greater than every timestamp of the series, get_dataspan of the
\* series is afterwards not smaller than it was before the call.
C23_SpanMonotone ==
    [][ \A k \in SpanKeys :
          LET before == get_dataspan_result(data, k[1], k[2], k[3])
              after == get_dataspan_result(data', k[1], k[2], k[3])
          IN  ( /\ last'.op = "add_datapoint" /\ last'.err = "ok"
                /\ last'.args[1] = k[1] /\ last'.args[2] = k[2]
                /\ last'.args[3] = k[3]
                /\ before.err = "ok"
                /\ last'.ret > Max(DOMAIN SeriesOf(data, k[1], k[2], k[3])) )
              => (after.err = "ok" /\ after.ret >= before.ret)
      ]_vars

\* C23 witness: a third, newer datapoint has been added to a series whose
\* span was a day already, and the span has grown.
C23_Witness ==
    /\ last.op = "add_datapoint" /\ last.err = "ok"
    /\ Cardinality(DOMAIN last.points) = 2
    /\ last.ret > Max(DOMAIN last.points)
    /\ Dataspan(last.points) = 100
    /\ Dataspan(LastSeries(data)) = 110

\* C24: for a series with at least one datapoint get_dataspan returns the
\* seconds between the oldest and the newest datapoint divided by 86400, to
\* the nearest hundredth: 0 for one datapoint, 1.0 for 86400 s or 86401 s,
\* min_averaging_window + 0.1 for (min_averaging_window + 0.1) days and 1 s.
C24_DataspanValue ==
    (last.op = "get_dataspan" /\ last.err = "ok")
    => LET s == LastSeries(data)
       IN  /\ DOMAIN s # {}
           /\ 2 * Abs(last.ret * DaySeconds - 100 * RawSpan(s)) <= DaySeconds
           /\ Cardinality(DOMAIN s) = 1 => last.ret = 0
           /\ RawSpan(s) \in {DaySeconds, DaySeconds + 1} => last.ret = 100
           /\ RawSpan(s) = (10 * min_averaging_window + 1) * (DaySeconds \div 10) + 1
              => last.ret = 100 * min_averaging_window + 10

\* C24 witness: get_dataspan has returned min_averaging_window + 0.1 for a
\* series whose datapoints are that many days and one second apart.
C24_Witness ==
    /\ last.op = "get_dataspan" /\ last.err = "ok"
    /\ min_averaging_window = 1
    /\ RawSpan(LastSeries(data)) = DaySeconds + 8640 + 1
    /\ last.ret = 110

C25_NegativeReached ==
    /\ last.op = "verify_dataspan" /\ last.err = "ok"
    /\ last.ret = -50

\* the status for rates and thresholds taken as numbers: crit above the
\* crit threshold, warn above the warn threshold and not above the crit
\* threshold, ok otherwise
Classification(current_rate, planned_rate, warn_pct, crit_pct) ==
    IF current_rate * 100 > planned_rate * (100 + crit_pct) THEN "crit"
    ELSE IF current_rate * 100 > planned_rate * (100 + warn_pct) THEN "warn"
    ELSE "ok"

\* C26: do_status_processing reports crit iff the current rate is above
\* planned*(1+crit/100), warn iff it is above planned*(1+warn/100) and not
\* above planned*(1+crit/100), ok otherwise, so that a rate equal to a
\* threshold gets the lower status; and it reports one status.
C26_StrictThresholds ==
    [][ pc = "status"
        => /\ Len(log') = Len(log) + 1
           /\ log'[Len(log')].call = "update"
           /\ log'[Len(log')].status =
                 Classification(frame.current_growth, frame.planned_growth,
                                cfg.memory_mon_warn_reduction,
                                cfg.memory_mon_crit_reduction)
      ]_vars

\* C27: find_planned_grow_ratio returns max_usage / timeframe to the nearest
\* hundredth whatever cur_usage is: 31.02 for (252, 11323, 365), and the
\* same for every other cur_usage.
C27_PlannedRate ==
    [][ pc = "planned"
        => /\ 2 * Abs(frame'.planned_growth * cfg.timeframe - 100 * frame.max_usage)
                 <= cfg.timeframe
           /\ \A cur \in GrowthCurrents \cup {0, frame.max_usage} :
                 find_planned_grow_ratio(cur, frame.max_usage, cfg.timeframe)
                    = frame'.planned_growth
           /\ (frame.max_usage = 11323 /\ cfg.timeframe = 365)
                 => frame'.planned_growth = 3102
      ]_vars

\* C27 witness: find_planned_grow_ratio(252, 11323, 365) has returned 31.02.
C27_Witness ==
    /\ pc = "current"
    /\ frame.cur_usage = 252 /\ frame.max_usage = 11323 /\ cfg.timeframe = 365
    /\ frame.planned_growth = 3102

\* datapoints that lie on one line
Collinear(points) ==
    LET a == Min(DOMAIN points)
        b == Max(DOMAIN points)
    IN  \A t \in DOMAIN points :
           (points[t] - points[a]) * (b - a) = (points[b] - points[a]) * (t - a)

\* r is, to the nearest hundredth, the least-squares slope per day of
\* datapoints whose timestamps are whole days
LeastSquaresPerDay(points, r) ==
    LET ts == DOMAIN points
        n == Cardinality(ts)
        Sum(f(_)) == SumSeq([i \in 1..n |-> f(SortedSeq(ts)[i])])
        D(t) == t \div DaySeconds
        Y(t) == points[t]
        DY(t) == D(t) * Y(t)
        DD(t) == D(t) * D(t)
        num == n * Sum(DY) - Sum(D) * Sum(Y)
        den == n * Sum(DD) - Sum(D) * Sum(D)
    IN  2 * Abs(r * den - 100 * num) <= den

C28_OffLineReached ==
    /\ pc = "status"
    /\ Cardinality(DOMAIN frame.datapoints) = 3
    /\ ~Collinear(frame.datapoints)
    /\ frame.current_growth = 1250

\* the window and timeframe rules a configuration file breaks: min below
\* max, max positive, min not negative, timeframe positive
BrokenRules(c) ==
    (IF c.min_averaging_window < c.max_averaging_window THEN {} ELSE {"min_below_max"})
    \cup (IF c.max_averaging_window <= 0 THEN {"max_positive"} ELSE {})
    \cup (IF c.min_averaging_window < 0 THEN {"min_not_negative"} ELSE {})
    \cup (IF c.timeframe <= 0 THEN {"timeframe_positive"} ELSE {})

\* C29: once verify_conf has run, a configuration file that breaks one of
\* the rules has ended the run with one immediate 'unknown' notification
\* that has a message for every rule broken, and the store has never been
\* initialised, written to or saved; a configuration file that breaks none
\* of them has been accepted.
C29_BadWindowsRejected ==
    (runs > 0 /\ pc \notin {"lock", "verify_conf"})
    => IF BrokenRules(cfg) # {}
       THEN /\ pc = "exited" /\ frame.exit = "notify_immediate"
            /\ log # <<>>
            /\ log[Len(log)].call = "notify_immediate"
            /\ log[Len(log)].status = "unknown"
            /\ log[Len(log)].n >= Cardinality(BrokenRules(cfg))
            /\ \A i \in 1..Len(log) : log[i].call \in {"aqquire", "notify_immediate"}
            /\ location = "None" /\ adds = 0
            /\ \A l \in Locations : saved[l] = NothingSaved
       ELSE frame.exit # "notify_immediate"

\* what verify_conf does hold to: a configuration file for which it collects
\* a message ends the run with one 'unknown' notification before init(), and
\* it collects one for a timeframe or a max_averaging_window that is not
\* positive and for a min_averaging_window not below max_averaging_window.
C29_TestedRulesReject ==
    (runs > 0 /\ pc \notin {"lock", "verify_conf"})
    => /\ (BrokenRules(cfg) \ {"min_not_negative"}) # {} => verify_conf(cfg) # {}
       /\ verify_conf(cfg) # {}
          => /\ pc = "exited" /\ frame.exit = "notify_immediate"
             /\ log # <<>>
             /\ log[Len(log)].call = "notify_immediate"
             /\ log[Len(log)].status = "unknown"
             /\ log[Len(log)].n >= Cardinality(BrokenRules(cfg) \ {"min_not_negative"})
             /\ \A i \in 1..Len(log) : log[i].call \in {"aqquire", "notify_immediate"}
             /\ location = "None" /\ adds = 0
             /\ \A l \in Locations : saved[l] = NothingSaved

\* a run with a negative min_averaging_window that went through to the end
C29_NegativeMinAccepted ==
    /\ cfg.min_averaging_window < 0
    /\ pc = "exited" /\ frame.exit = "0"
    /\ saved[cfg.history_file].intact

UpdatesOf(r) == {i \in PositionsOf("update") : log[i].res = r}

\* C30: a run of main() that has ended normally has sent ScriptStatus one
\* update, with status ok, warn, crit or unknown, for every enabled resource
\* (memory if enabled; space and inode of every mountpoint if disk is
\* enabled) and for nothing else, and one notify_agregated(), after all the
\* updates.
C30_OneStatusPerResource ==
    (pc = "exited" /\ frame.exit = "0")
    => /\ Len(Resources(cfg)) =
             (IF cfg.memory_mon_enabled THEN 1 ELSE 0)
             + (IF cfg.disk_mon_enabled THEN 2 * Len(cfg.disk_mountpoints) ELSE 0)
       /\ \A r \in ResourceIndexes : Cardinality(UpdatesOf(r)) = 1
       /\ \A i \in PositionsOf("update") :
             /\ log[i].res \in ResourceIndexes
             /\ log[i].status \in {"ok", "warn", "crit", "unknown"}
       /\ Cardinality(PositionsOf("notify_agregated")) = 1
       /\ \A i \in PositionsOf("notify_agregated") :
             \A j \in PositionsOf("update") : j < i

\* C30 witness: a run over memory and both series of a mountpoint has ended
\* normally with three updates, one of them a warning.
C30_Witness ==
    /\ pc = "exited" /\ frame.exit = "0"
    /\ Len(Resources(cfg)) = 3
    /\ Cardinality(PositionsOf("update")) = 3
    /\ \E i \in PositionsOf("update") : log[i].status = "warn"
    /\ PositionsOf("notify_agregated") # {}

\* a run that has ended normally after reporting every resource unknown
C30_AllUnknownReached ==
    /\ pc = "exited" /\ frame.exit = "0"
    /\ Len(Resources(cfg)) = 3
    /\ \A r \in ResourceIndexes :
          \E i \in UpdatesOf(r) : log[i].status = "unknown"

NotificationsSent ==
    PositionsOf("notify_agregated") \cup PositionsOf("notify_immediate")

\* C31: when save() raises (the history file cannot be written) the run
\* ends there with exit status 3: the exception is not caught on the way,
\* no notification has been or will be sent by that run, the lock is not
\* released, and the file is as it was.
C31_SaveFailureFatal ==
    [][ (pc \in {"save", "clean_save"} /\ last'.op = "save" /\ last'.err # "ok")
        => /\ pc' = "exited" /\ frame'.exit = "3"
           /\ log'[Len(log')].call = "save"
           /\ \A i \in DOMAIN log' :
                 log'[i].call \notin {"notify_agregated", "notify_immediate", "release"}
           /\ files' = files /\ saved' = saved
      ]_vars

\* C31 witness: a run that had added a datapoint and reported a status has
\* ended with exit status 3 in save(), on a write protected file.
C31_Witness ==
    /\ pc = "exited" /\ frame.exit = "3"
    /\ last.op = "save" /\ last.err = "IOError"
    /\ log[Len(log)].call = "save"
    /\ PositionsOf("add_datapoint") # {} /\ PositionsOf("update") # {}
    /\ NotificationsSent = {}
    /\ files[cfg.history_file].kind = "denied"

Parts(m) == {m[i] : i \in DOMAIN m}

\* message m names the resource and gives its rate in the units of the
\* resource
NamesResource(m, key, current_growth) ==
    /\ \A i \in DOMAIN rname(key[1], key[2], key[3]) :
          m[i] = rname(key[1], key[2], key[3])[i]
    /\ Num(current_growth) \in Parts(m)
    /\ Text(units(key[1], key[3])) \in Parts(m)
    /\ \A p \in Parts(m) :
          p.text \in {"inodes/day", "MB/day"} => p.text = units(key[1], key[3])
    /\ units(key[1], key[3]) = "inodes/day" <=> (key[1] = "disk" /\ key[3] = "inode")

\* C32: the message of every status do_status_processing reports, ok, warn
\* or crit, holds the name of the resource, the current rate, the planned
\* rate and the units, 'inodes/day' for a disk inode series and 'MB/day' for
\* memory and disk space.
C32_MessageEmbedsRates ==
    [][ (pc = "status" /\ pc' # "status")
        => /\ log'[Len(log')].status \in {"ok", "warn", "crit"}
           /\ NamesResource(frame'.msg, Resource, frame.current_growth)
           /\ Num(frame.planned_growth) \in Parts(frame'.msg)
      ]_vars

\* what the messages do hold: every one the name, the current rate and the
\* units, and those of warn and crit the planned rate too
C32_NameRateUnits ==
    [][ (pc = "status" /\ pc' # "status")
        => /\ NamesResource(frame'.msg, Resource, frame.current_growth)
           /\ log'[Len(log')].status \in {"warn", "crit"}
                 => Num(frame.planned_growth) \in Parts(frame'.msg)
      ]_vars

\* an inode series reported with a warning, in inodes/day
C32_InodeWarnReached ==
    /\ pc \in {"fetch", "save"}
    /\ log # <<>> /\ log[Len(log)].call = "update" /\ log[Len(log)].status = "warn"
    /\ Text("inodes/day") \in Parts(frame.msg)

AllCalls == [i \in DOMAIN log |-> log[i].call]

\* the calls of a clean_histdata run
CleanRun == <<"aqquire", "init", "clear_history", "save", "notify_immediate">>

\* C33: a run started with clean_histdata, its configuration accepted, calls
\* init(), clear_history(), save() and notify_immediate('unknown', ..) in
\* this order and ends there; it fetches no usage, adds no datapoint and
\* evaluates no resource, and the history file then holds no datapoint.
C33_CleanRun ==
    /\ frame.clean_histdata => IsPrefix(AllCalls, CleanRun)
    /\ (frame.clean_histdata /\ verify_conf(cfg) = {})
          => pc \in {"lock", "verify_conf", "init", "clear", "clean_save",
                     "clean_notify"}
    /\ (pc = "exited" /\ PositionsOf("clear_history") # {})
          => /\ AllCalls = CleanRun
             /\ frame.exit = "notify_immediate"
             /\ log[Len(log)].status = "unknown"
             /\ saved[cfg.history_file].intact
             /\ Timestamps(saved[cfg.history_file].store) = {}
             /\ files[cfg.history_file] = DocFile(yaml_dump(EmptyStore))

\* C33 witness: after a run that added datapoints, a clean_histdata run has
\* ended and the history file holds none.
C33_Witness ==
    /\ pc = "exited" /\ AllCalls = CleanRun
    /\ runs = 2 /\ adds > 0
    /\ files[cfg.history_file] = DocFile(yaml_dump(EmptyStore))

\* position of mountpoint m in the configured list
MountIndex(m) ==
    CHOOSE i \in DOMAIN cfg.disk_mountpoints : cfg.disk_mountpoints[i] = m

\* series k of store d holds a datapoint
Filled(d, k) == DOMAIN SeriesIn(d, k) # {}

\* C34: in a run that found the store empty and during which no datapoint
\* has aged out, when add_datapoint is called
\* for a disk series the memory series, if enabled, has its datapoint; when
\* it is called for an inode series the space series of every configured
\* mountpoint has its datapoint; and within space, and within inode, the
\* mountpoints configured earlier have theirs and those configured later
\* have none yet.
C34_SpaceBeforeInode ==
    [][ (pc = "add" /\ pc' # "add" /\ runs = 1 /\ clock = 0)
        => LET prefix == last'.args[1]
               path == last'.args[2]
               data_type == last'.args[3]
               mounts == {cfg.disk_mountpoints[i] : i \in DOMAIN cfg.disk_mountpoints}
           IN  /\ prefix = "memory" => \A m \in mounts : m \notin DOMAIN data.disk
               /\ prefix = "disk"
                   => /\ cfg.memory_mon_enabled => Filled(data, <<"memory", "None", "None">>)
                      /\ path \in mounts
                      /\ data_type = "inode"
                          => \A m \in mounts : Filled(data, <<"disk", m, "space">>)
                      /\ data_type = "space"
                          => \A m \in mounts : ~Filled(data, <<"disk", m, "inode">>)
                      /\ \A m \in mounts :
                            /\ MountIndex(m) < MountIndex(path)
                                => Filled(data, <<"disk", m, data_type>>)
                            /\ MountIndex(m) >= MountIndex(path)
                                => ~Filled(data, <<"disk", m, data_type>>)
      ]_vars

\* C34 witness: the first run over the mountpoints /var and /tmp, configured
\* in this order, has ended normally with a datapoint in each of the four
\* series.
C34_Witness ==
    /\ pc = "exited" /\ frame.exit = "0" /\ runs = 1 /\ clock = 0
    /\ cfg.disk_mountpoints = <<"/var", "/tmp">>
    /\ Cardinality(PositionsOf("add_datapoint")) = 4
    /\ \A m \in {"/var", "/tmp"}, t \in {"space", "inode"} :
          Filled(data, <<"disk", m, t>>)

\* a first run over memory and a mountpoint that has added all three
C34_MemoryFirstReached ==
    /\ pc = "exited" /\ frame.exit = "0" /\ runs = 1 /\ clock = 0
    /\ cfg.memory_mon_enabled /\ cfg.disk_mon_enabled
    /\ Cardinality(PositionsOf("add_datapoint")) = 3

\* the keys of every series a store of the model can hold
SeriesKeys ==
    {<<"memory", "None", "None">>}
    \cup {<<"disk", m, t>> : m \in ExistingPaths, t \in {"inode", "space"}}

\* C35: an add_datapoint that succeeds leaves the datapoints of every other
\* series as they were, keeps every datapoint of its own series except the
\* one at the timestamp it writes, adds nothing but that one, and drops no
\* datapoint however old.
C35_AddTouchesOneSeries ==
    [][ (last'.op = "add_datapoint" /\ last'.err = "ok")
        => LET target == <<last'.args[1], last'.args[2], last'.args[3]>>
               before == SeriesIn(data, target)
               after == SeriesIn(data', target)
           IN  /\ \A k \in SeriesKeys \ {target} :
                     SeriesIn(data', k) = SeriesIn(data, k)
               /\ DOMAIN after = DOMAIN before \cup {last'.ret}
               /\ \A t \in DOMAIN before \ {last'.ret} : after[t] = before[t]
               /\ after[last'.ret] = last'.args[4]
               /\ Timestamps(data) \subseteq Timestamps(data')
               /\ UNCHANGED <<files, location, max_averaging_window,
                              min_averaging_window>>
      ]_vars

\* C35 witness: add_datapoint has written to one series while another
\* series holds a datapoint that has aged out.
C35_Witness ==
    /\ last.op = "add_datapoint" /\ last.err = "ok"
    /\ \E k \in SeriesKeys \ {<<last.args[1], last.args[2], last.args[3]>>} :
          \E t \in DOMAIN SeriesIn(data, k) : Expired(t)
    /\ ~Expired(last.ret)

\* a step of main() in which the call made raised an exception that is not
\* a RecoverableException: a metrics source, the store, or numpy on no
\* datapoints
Raises ==
    \/ pc = "fetch" /\ pc' = "exited"
    \/ /\ pc \in {"init", "add", "verify", "query", "save", "clean_save"}
       /\ log' # log
       /\ last'.err # "ok"
    \/ pc = "current" /\ log' # log /\ DOMAIN frame.datapoints = {}

\* the run ends with exit status 3 where the exception was raised: save()
\* has not completed in it, nothing is written to the file, no notification
\* is sent and the lock is not released
EndsWithExit3 ==
    /\ pc' = "exited" /\ frame'.exit = "3"
    /\ files' = files /\ saved' = saved
    /\ PositionsOf("save") = {}
    /\ \A i \in DOMAIN log' :
          log'[i].call \notin {"notify_agregated", "notify_immediate", "release"}

C36_LockHeldReached ==
    /\ pc = "exited" /\ frame.exit = "notify_immediate"
    /\ Len(log) = 1 /\ log[1].call = "notify_immediate"

\* the datapoints of series s that are newer than c - maxw days
NewerPart(s, c, maxw) ==
    [t \in {x \in DOMAIN s : x * SubSecond > c - maxw * Day} |-> s[t]]

\* C37: what the store holds after init() is given by the file at the
\* location, the clock and the windows passed, and by nothing the class held
\* before: with no readable file the store is empty, with a file it holds
\* the datapoints of the file that have not aged out, so that datapoints
\* added and not saved are gone; location and both windows are those passed.
C37_InitForgets ==
    [][ (last'.op = "init" /\ last'.err = "ok" /\ last' # last)
        => LET f == files[last'.args[1]]
           IN  /\ location' = last'.args[1]
               /\ max_averaging_window' = last'.args[2]
               /\ min_averaging_window' = last'.args[3]
               /\ data'.kind = "dict"
               /\ f.kind # "doc" => data' = EmptyStore
               /\ f.kind = "doc"
                   => \A k \in SeriesKeys :
                         SeriesIn(data', k) =
                            NewerPart(SeriesIn(yaml_load(f.lines), k), clock,
                                      last'.args[2])
      ]_vars

\* C37 witness: init() in a process that had added datapoints and saved none
\* has left the store empty, with the windows passed to it.
C37_Witness ==
    /\ last.op = "init" /\ last.err = "ok"
    /\ adds > 0
    /\ files[location].kind = "missing"
    /\ data = EmptyStore
    /\ <<max_averaging_window, min_averaging_window>> = <<2, 1>>
============================================================================
